---------------------------- MODULE Spec2Model ----------------------------
(***************************************************************************)
(* A model of `collect`: the argument parser (src/src/args.rs), the        *)
(* capture/replay engine with its two strategies (src/src/main.rs,         *)
(* src/src/buffers.rs, src/src/memfile.rs, src/src/sys.rs), the epilogue  *)
(* of main(), the exec dispatcher (src/src/exec.rs) and the descriptor     *)
(* owner RawFile (src/src/memfile.rs, src/src/memfile/fd.rs).              *)
(***************************************************************************)
EXTENDS Integers, Sequences, FiniteSets, TLC

(***************************************************************************)
(* Bounds of the model.                                                    *)
(***************************************************************************)
\* Longest argument vector explored by the parser specification.
MaxArgs == 5
\* Longest input on stdin, largest byte value, largest size fstat64 reports
\* for stdin, and the most bytes one read() call delivers.
MaxLen == 2
MaxByte == 1
MaxProbe == 3
MaxChunk == 2

(***************************************************************************)
(* Program constants of args.rs.                                           *)
(***************************************************************************)
POSITIONAL_ARG_STRING == "{}"
EXEC_MODE_STRING_TERMINATOR == ";"

\* The command-line tokens the model draws argument vectors from: the two
\* option names, the terminator, the placeholder and two ordinary words.
Tokens == {"-exec", "-exec{}", ";", "{}", "c", "a"}

BoundedSeq(S, n) == UNION {[1..k -> S] : k \in 0..n}

\* The two option names.
ExecOptions == {"-exec", "-exec{}"}

VARIABLES
    argv,       \* std::env::args_os().skip(1), as given to parse_from
    args,       \* parse_from: the `args` iterator (tokens not yet consumed)
    idx,        \* parse_from: `idx`
    output,     \* parse_from: `output.exec`
    parsed,     \* the value parse_from returned (kind "Pending" before)
    lastExec,   \* how the last ExecMode::parse call ended
    pc,         \* position of main()
    cfg,        \* the build: which cargo features / debug_assertions are on
    probe,      \* st_size fstat64 reports for stdin (0: none / fstat failed)
    stdinData,  \* the bytes stdin delivers
    stdinPos,   \* how many of them have been read
    stdinEof,   \* a read of stdin has returned 0
    bytes,      \* buffered(): `bytes`, the Vec<u8> and then its frozen box
    cursor,     \* position of the BufferWriter / BufferReader over `bytes`
    file,       \* memfd(): `file`, the memory file's data and file offset
    copied,     \* running total of the io::copy in progress
    read,       \* `read`
    written,    \* `written`
    stdout,     \* the bytes written to stdout so far
    stdoutLen,  \* length last given to ftruncate(STDOUT_FILENO), -1 if never
    setLen,     \* the RunOnce `set_len` of memfd(): "Live" or "Dead"
    closes,     \* number of close(STDOUT_FILENO) calls made
    copies,     \* io::copy calls started: [in |-> from stdin, out |-> to stdout]
    faults,     \* the system calls that have failed so far
    workResult, \* what work::buffered() / work::memfd() returned
    exitCode,   \* exit status of the process, -1 while it runs
    dispatch,   \* exec::spawn_from_sync: "none" (never called), "running",
                \* "done" (iterator exhausted) or "panicked"
    entry,      \* number of specs the dispatcher has taken from Options
    step,       \* where the dispatcher is within the entry it has taken
    input,      \* run_single: descriptor `input` of the entry (0: none)
    stdinFd,    \* run_stdin: descriptor duplicated for the child's stdin
    openFds,    \* descriptors open in the parent
    children,   \* the children spawned so far, in spawn order
    outcomes,   \* the items spawn_from_sync has yielded so far
    storage,    \* the captured data behind the descriptor given as `file`
    offset,     \* file offset of the open file description `file` refers to
    objects,    \* the live owners of descriptors: RawFile and fs::File values
    fdTable,    \* the descriptors open in the process using memfile.rs
    rawFds,     \* descriptors released by into_raw_fd, held by the caller
    opened,     \* number of descriptors the process has been given so far
    closeCalls, \* number of close(2) calls made by owners being destroyed
    badCloses,  \* those of them made on a descriptor the owner did not own
    returned,   \* what the last fallible operation of memfile.rs returned
    iter,       \* an ExecModeArgIterator a caller of args.rs is draining
    yielded,    \* the items that iterator has yielded so far
    given,      \* the library call the caller made last: arguments and result
    heap,       \* a Vec<u8> a caller of buffers.rs holds
    find        \* a call of hp.rs find_size_bytes: its position and locals

parserVars == <<argv, args, idx, output, parsed, lastExec>>
stdinVars == <<stdinData, stdinPos, stdinEof>>
bufferVars == <<bytes, cursor, file, copied, read, written>>
stdoutVars == <<stdout, stdoutLen, setLen, closes>>
runVars == <<cfg, probe, stdinVars, bufferVars, stdoutVars, copies, faults,
             workResult, exitCode>>
execVars == <<dispatch, entry, step, input, stdinFd, openFds, children, outcomes,
              storage, offset>>
handleVars == <<objects, fdTable, rawFds, opened, closeCalls, badCloses, returned>>
libVars == <<iter, yielded, given, heap, find>>
vars == <<parserVars, pc, runVars, execVars, handleVars, libVars>>

(***************************************************************************)
(* Option<OsString>: Some(x) is <<x>>, None is <<>>.  The arguments of     *)
(* ExecMode::Stdin (a Vec<OsString>) are kept in the same shape, all Some, *)
(* so that the two variants stay comparable.                               *)
(***************************************************************************)
Some(x) == <<x>>
None == <<>>

\* parsers::ExecMode::visit
VisitMut(argument) ==
    IF argument = "-exec{}" THEN "Postional" ELSE "Stdin"
Visit(argument) ==
    IF argument = "-exec" THEN "Stdin"
    ELSE IF argument = "-exec{}" THEN "Postional"
    ELSE "NoMatch"

\* parsers::ExecMode::command_string
CommandStringMut(self) == "-exec"
CommandString(self) == IF self = "Postional" THEN "-exec{}" ELSE "-exec"

\* Number of leading items of `rest` that Iterator::take_while keeps.
RECURSIVE TakeWhileCount(_)
TakeWhileCount(rest) ==
    IF rest = <<>> \/ Head(rest) = EXEC_MODE_STRING_TERMINATOR THEN 0
    ELSE 1 + TakeWhileCount(Tail(rest))

\* What is left of the iterator after take_while(..).collect(): take_while
\* has also consumed the first item it rejected.
CollectRestMut(rest) == SubSeq(rest, TakeWhileCount(rest) + 1, Len(rest))
CollectRest(rest) == SubSeq(rest, TakeWhileCount(rest) + 2, Len(rest))

\* The items take_while(..) yields.
CollectTakenMut(rest) ==
    SubSeq(rest, 1, IF TakeWhileCount(rest) < Len(rest)
                    THEN TakeWhileCount(rest) + 1 ELSE Len(rest))
CollectTaken(rest) == SubSeq(rest, 1, TakeWhileCount(rest))

\* The closure mapping an argument of -exec{} to Option<OsString>.
PositionalArgMut(x) == Some(x)
PositionalArg(x) == IF x = POSITIONAL_ARG_STRING THEN None ELSE Some(x)

\* An argument of -exec: the OsString as it is.
StdinArgMut(x) == IF x = POSITIONAL_ARG_STRING THEN None ELSE Some(x)
StdinArg(x) == Some(x)

\* parsers::ExecMode::parse(self, _argument, rest): the value returned and
\* the iterator's remainder.
ExecModeParseMut(self, rest) ==
    IF rest = <<>> \/ Head(rest) = EXEC_MODE_STRING_TERMINATOR
    THEN [ok |-> FALSE, value |-> <<>>, rest |-> <<>>, ended |-> "nocommand"]
    ELSE LET command == Head(rest)
             taken == CollectTaken(Tail(rest))
             value ==
                 IF self = "Stdin"
                 THEN [mode |-> "Stdin", command |-> command,
                       args |-> [i \in 1..Len(taken) |-> StdinArg(taken[i])]]
                 ELSE [mode |-> "Positional", command |-> command,
                       args |-> [i \in 1..Len(taken) |-> PositionalArg(taken[i])]]
         IN [ok |-> TRUE, value |-> <<value>>, rest |-> CollectRest(Tail(rest)),
             ended |-> IF Len(taken) < Len(Tail(rest)) THEN "terminator" ELSE "exhausted"]
ExecModeParse(self, rest) ==
    IF rest = <<>>
    THEN [ok |-> FALSE, value |-> <<>>, rest |-> <<>>, ended |-> "nocommand"]
    ELSE LET command == Head(rest)
             taken == CollectTaken(Tail(rest))
             value ==
                 IF self = "Stdin"
                 THEN [mode |-> "Stdin", command |-> command,
                       args |-> [i \in 1..Len(taken) |-> StdinArg(taken[i])]]
                 ELSE [mode |-> "Positional", command |-> command,
                       args |-> [i \in 1..Len(taken) |-> PositionalArg(taken[i])]]
         IN [ok |-> TRUE, value |-> <<value>>, rest |-> CollectRest(Tail(rest)),
             ended |-> IF Len(taken) < Len(Tail(rest)) THEN "terminator" ELSE "exhausted"]

\* `output.exec.push(result)`
PushExecMut(exec, result) == <<result>> \o exec
PushExec(exec, result) == Append(exec, result)

\* The values parse_from returns.
ParseOk == [kind |-> "Ok", index |-> 0, argument |-> ""]
ParsePending == [kind |-> "Pending", index |-> 0, argument |-> ""]
\* ArgParseError::WithIndex(index, UnknownOption(argument))
UnknownOption(index, argument) ==
    [kind |-> "UnknownOption", index |-> index, argument |-> argument]
\* ArgParseError::WithIndex(index, InvalidUsage{argument, ..})
InvalidUsage(index, argument) ==
    [kind |-> "InvalidUsage", index |-> index, argument |-> argument]

\* One iteration of parse_from's `while let Some(arg) = args.next()` on the
\* parser state st = [args, idx, output, parsed, lastExec]; the loop's exit
\* when the iterator is empty.
ParserStep(st) ==
    IF st.args = <<>>
    THEN [st EXCEPT !.parsed = ParseOk]
    ELSE LET arg == Head(st.args)
             i == st.idx + 1
             p == Visit(arg)
             r == ExecModeParse(p, Tail(st.args))
         IN IF p = "NoMatch"
            THEN [st EXCEPT !.args = Tail(st.args), !.idx = i,
                            !.parsed = UnknownOption(i, arg)]
            ELSE IF r.ok
            THEN [st EXCEPT !.args = r.rest, !.idx = i,
                            !.output = PushExec(st.output, r.value[1]),
                            !.lastExec = r.ended]
            ELSE [st EXCEPT !.args = r.rest, !.idx = i,
                            !.parsed = InvalidUsage(i, CommandString(p)),
                            !.lastExec = r.ended]

ParserStart(a) ==
    [args |-> a, idx |-> 0, output |-> <<>>, parsed |-> ParsePending,
     lastExec |-> "none"]

\* parse_from(args): the parser run to its end.
RECURSIVE ParserRun(_)
ParserRun(st) == IF st.parsed.kind # "Pending" THEN st ELSE ParserRun(ParserStep(st))

\* Result<Options, ArgParseError> of parse_from: the Options only when Ok.
ParseResult(st) ==
    [result |-> st.parsed, exec |-> IF st.parsed.kind = "Ok" THEN st.output ELSE <<>>]
ParseFrom(a) == ParseResult(ParserRun(ParserStart(a)))

ParserState ==
    [args |-> args, idx |-> idx, output |-> output, parsed |-> parsed,
     lastExec |-> lastExec]

SetParser(st) ==
    /\ args' = st.args
    /\ idx' = st.idx
    /\ output' = st.output
    /\ parsed' = st.parsed
    /\ lastExec' = st.lastExec
    /\ UNCHANGED argv

(***************************************************************************)
(* The actions of the parser: main() is in parse_args().                   *)
(***************************************************************************)
Parsing == pc = "parse_args" /\ parsed.kind = "Pending"

\* Where main() is after an iteration that leaves `result`: still in
\* parse_args(), or past `let parsed = parse_args()?`, which returns the
\* error from main() when there is one.
MainAfterParseMut(result) ==
    IF result.kind = "Pending" THEN "parse_args" ELSE "work"
MainAfterParse(result) ==
    IF result.kind = "Pending" THEN "parse_args"
    ELSE IF result.kind = "Ok" THEN "work"
    ELSE "parse_failed"

\* An iteration whose argument is -exec / -exec{} and has a command.
ParseExec ==
    /\ Parsing
    /\ args # <<>>
    /\ Visit(Head(args)) # "NoMatch"
    /\ Len(args) >= 2
    /\ SetParser(ParserStep(ParserState))
    /\ pc' = MainAfterParse(ParserStep(ParserState).parsed)
    /\ UNCHANGED <<runVars, execVars, handleVars, libVars>>

\* An iteration whose argument is -exec / -exec{} and is the last token.
ParseExecNoCommand ==
    /\ Parsing
    /\ args # <<>>
    /\ Visit(Head(args)) # "NoMatch"
    /\ Len(args) = 1
    /\ SetParser(ParserStep(ParserState))
    /\ pc' = MainAfterParse(ParserStep(ParserState).parsed)
    /\ UNCHANGED <<runVars, execVars, handleVars, libVars>>

\* An iteration whose argument no parser visits.
ParseUnknownOption ==
    /\ Parsing
    /\ args # <<>>
    /\ Visit(Head(args)) = "NoMatch"
    /\ SetParser(ParserStep(ParserState))
    /\ pc' = MainAfterParse(ParserStep(ParserState).parsed)
    /\ UNCHANGED <<runVars, execVars, handleVars, libVars>>

\* The iterator is exhausted: parse_from returns Ok(output).
ParseEnd ==
    /\ Parsing
    /\ args = <<>>
    /\ SetParser(ParserStep(ParserState))
    /\ pc' = MainAfterParse(ParserStep(ParserState).parsed)
    /\ UNCHANGED <<runVars, execVars, handleVars, libVars>>

ParserInit(a) ==
    /\ argv = a
    /\ args = a
    /\ idx = 0
    /\ output = <<>>
    /\ parsed = ParsePending
    /\ lastExec = "none"

(***************************************************************************)
(* The build.  cfg.memfile selects work::memfd() over work::buffered()     *)
(* (main.rs:550-558); preallocate is feature memfile-preallocate, debug is *)
(* debug_assertions, sizeOutput is feature memfile-size-output.  The three *)
(* are read by memfd() only.                                               *)
(***************************************************************************)
Builds ==
    {[memfile |-> FALSE, preallocate |-> FALSE, debug |-> FALSE, sizeOutput |-> FALSE]}
    \cup [memfile : {TRUE}, preallocate : BOOLEAN, debug : BOOLEAN, sizeOutput : BOOLEAN]

Byte == 0..MaxByte

\* DEFAULT_BUFFER_SIZE under memfile-preallocate: getpagesize() * 8, scaled
\* down to the model's sizes.
DefaultPreallocate == 3

Min(a, b) == IF a < b THEN a ELSE b

Zeros(n) == [i \in 1..n |-> 0]

\* The descriptor numbers of a process: 0, 1, 2 are stdin, stdout, stderr.
STDIO_FDS == {0, 1, 2}

\* exec::spawn_from_sync has not been called.
ExecIdle ==
    /\ dispatch = "none"
    /\ entry = 0
    /\ step = "next"
    /\ input = 0
    /\ stdinFd = 0
    /\ openFds = STDIO_FDS
    /\ children = <<>>
    /\ outcomes = <<>>
    /\ storage = <<>>
    /\ offset = 0

\* No RawFile or fs::File exists: the process has its three standard
\* descriptors and nothing else.
HandleIdle ==
    /\ objects = <<>>
    /\ fdTable = STDIO_FDS
    /\ rawFds = {}
    /\ opened = 0
    /\ closeCalls = 0
    /\ badCloses = 0
    /\ returned = [op |-> "none"]

\* No library value is in use by a caller.
LibIdle ==
    /\ iter = [kind |-> "none"]
    /\ yielded = <<>>
    /\ given = [op |-> "none"]
    /\ heap = <<>>
    /\ find = [pc |-> "none"]

\* The state of the run before main() has done anything but parse.
RunInit ==
    /\ cfg \in Builds
    /\ probe \in 0..MaxProbe
    /\ stdinData \in BoundedSeq(Byte, MaxLen)
    /\ stdinPos = 0
    /\ stdinEof = FALSE
    /\ bytes = <<>>
    /\ cursor = 0
    /\ file = [data |-> <<>>, pos |-> 0]
    /\ copied = 0
    /\ read = 0
    /\ written = 0
    /\ stdout = <<>>
    /\ stdoutLen = -1
    /\ setLen = "Live"
    /\ closes = 0
    /\ copies = [in |-> 0, out |-> 0]
    /\ faults = {}
    /\ workResult = "Running"
    /\ exitCode = -1

\* The parser alone: one fixed run state, every argument vector.
RunIdle ==
    /\ cfg = [memfile |-> FALSE, preallocate |-> FALSE, debug |-> FALSE, sizeOutput |-> FALSE]
    /\ probe = 0
    /\ stdinData = <<>>
    /\ stdinPos = 0
    /\ stdinEof = FALSE
    /\ bytes = <<>>
    /\ cursor = 0
    /\ file = [data |-> <<>>, pos |-> 0]
    /\ copied = 0
    /\ read = 0
    /\ written = 0
    /\ stdout = <<>>
    /\ stdoutLen = -1
    /\ setLen = "Live"
    /\ closes = 0
    /\ copies = [in |-> 0, out |-> 0]
    /\ faults = {}
    /\ workResult = "Running"
    /\ exitCode = -1

InitParse ==
    /\ \E a \in BoundedSeq(Tokens, MaxArgs) : ParserInit(a)
    /\ pc = "parse_args"
    /\ RunIdle
    /\ ExecIdle
    /\ HandleIdle
    /\ LibIdle

NextParse == ParseExec \/ ParseExecNoCommand \/ ParseUnknownOption \/ ParseEnd

SpecParse == InitParse /\ [][NextParse]_vars

(***************************************************************************)
(* main(): the `?` after parse_args().                                     *)
(***************************************************************************)
\* main() returns Err(..): the process exits with a failure status.
FailMut(result, fault) ==
    /\ pc' = "exit"
    /\ exitCode' = 0
    /\ workResult' = result
    /\ faults' = faults \cup fault
Fail(result, fault) ==
    /\ pc' = "exit"
    /\ exitCode' = 1
    /\ workResult' = result
    /\ faults' = faults \cup fault

MainParseFailed ==
    /\ pc = "parse_failed"
    /\ pc' = "exit"
    /\ exitCode' = 1
    /\ UNCHANGED <<handleVars, libVars, execVars, parserVars, cfg, probe, stdinVars, bufferVars, stdoutVars,
                   copies, faults, workResult>>

(***************************************************************************)
(* buffers.rs                                                              *)
(***************************************************************************)
\* <Vec<u8> as MutBuffer>::copy_from_slice(&mut self, st, buf): the vector
\* afterwards and the value returned.  slice::copy_from_slice panics when
\* the two slices differ in length.
VecCopyFromSliceMut(self, st, buf) ==
    [vec |-> SubSeq(self, 1, Min(st, Len(self)) - 1) \o buf, ret |-> Len(buf),
     panicked |-> FALSE]
VecCopyFromSlice(self, st, buf) ==
    IF st + Len(buf) <= Len(self)
    THEN IF Len(self) - st = Len(buf)
         THEN [vec |-> SubSeq(self, 1, st) \o buf, ret |-> Len(buf), panicked |-> FALSE]
         ELSE [vec |-> self, ret |-> 0, panicked |-> TRUE]
    ELSE IF st < Len(self)
    THEN [vec |-> SubSeq(self, 1, st) \o buf, ret |-> Len(buf), panicked |-> FALSE]
    ELSE [vec |-> self \o buf, ret |-> Len(buf), panicked |-> FALSE]

\* <BufferWriter as io::Write>::write under io::Write::write_all(buf), on the
\* vector and the writer's position: write_all calls write until the whole
\* of buf is taken, and fails with WriteZero when a call takes nothing.
RECURSIVE BufferWriteAll(_, _, _)
BufferWriteAll(vec, pos, buf) ==
    IF buf = <<>> THEN [vec |-> vec, cursor |-> pos, status |-> "Ok"]
    ELSE LET w == VecCopyFromSlice(vec, pos, buf)
         IN IF w.panicked THEN [vec |-> vec, cursor |-> pos, status |-> "Panic"]
            ELSE IF w.ret = 0
            THEN [vec |-> w.vec, cursor |-> pos, status |-> "WriteZero"]
            ELSE BufferWriteAll(w.vec, pos + w.ret, SubSeq(buf, w.ret + 1, Len(buf)))

\* Buffer::copy_to_slice(&self, st, slice) for a slice of n bytes: the bytes
\* copied out (the value returned is their number).
CopyToSlice(by, st, n) ==
    IF st >= Len(by) THEN <<>>
    ELSE SubSeq(by, st + 1, st + Min(Len(by) - st, n))

(***************************************************************************)
(* The memory file: write(2), read(2), ftruncate(2), fallocate(2) on it.   *)
(***************************************************************************)
\* write(fd, buf): the data is put at the file offset, the file grows as
\* needed and the offset moves past the data.
FileWrite(f, buf) ==
    [data |-> SubSeq(f.data, 1, f.pos) \o buf
              \o SubSeq(f.data, f.pos + Len(buf) + 1, Len(f.data)),
     pos |-> f.pos + Len(buf)]

\* read(fd, n bytes): the bytes from the file offset on.
FileRead(f, n) ==
    IF f.pos >= Len(f.data) THEN <<>>
    ELSE SubSeq(f.data, f.pos + 1, f.pos + Min(Len(f.data) - f.pos, n))

\* fs::File::set_len(size): ftruncate cuts the file or extends it with zeros.
SetLenMut(data, size) == data
SetLen(data, size) ==
    IF size <= Len(data) THEN SubSeq(data, 1, size)
    ELSE data \o Zeros(size - Len(data))

\* RawFile::open_mem(name, len) when every call succeeds: fallocate gives the
\* new file len zero bytes (no call when len = 0); the offset is 0.
OpenMem(len) == [data |-> IF len > 0 THEN Zeros(len) ELSE <<>>, pos |-> 0]

(***************************************************************************)
(* sys.rs, ext.rs                                                          *)
(***************************************************************************)
\* try_get_size(&stdin): Option<NonZeroUsize>, None as 0.  NonZeroUsize::new
\* turns a reported size of 0 into None.
TryGetSize == probe

\* read() on stdin returns 0, which ends io::copy: the input is at its end.
StdinAtEofMut == TRUE
StdinAtEof == stdinPos = Len(stdinData)

\* RunOnce::try_take: Some(closure) when the cell is Live; the cell itself is
\* left as it was.
TryTake(cell) == [some |-> cell = "Live", cell |-> cell]

\* RunOnce::is_runnable: false only for a Dead cell.
IsRunnable(cell) == cell # "Dead"

(***************************************************************************)
(* work::buffered()                                                        *)
(***************************************************************************)
\* main() enters work::buffered(): `bytes` is created empty, with capacity
\* try_get_size(&stdin) if any, and io::copy from stdin starts.
BufferedStart ==
    /\ pc = "work"
    /\ ~cfg.memfile
    /\ pc' = "buffered_copy_in"
    /\ bytes' = <<>>
    /\ cursor' = 0
    /\ copied' = 0
    /\ copies' = [copies EXCEPT !.in = @ + 1]
    /\ UNCHANGED <<handleVars, libVars, execVars, parserVars, cfg, probe, stdinVars, file, read, written,
                   stdoutVars, faults, workResult, exitCode>>

\* One round of io::copy(stdin, bytes.writer()): read() delivers k bytes and
\* write_all has the BufferWriter put them into the vector.
BufferedReadChunk ==
    /\ pc = "buffered_copy_in"
    /\ \E k \in 1..MaxChunk :
        /\ stdinPos + k <= Len(stdinData)
        /\ LET buf == SubSeq(stdinData, stdinPos + 1, stdinPos + k)
               w == BufferWriteAll(bytes, cursor, buf)
           IN /\ bytes' = w.vec
              /\ cursor' = w.cursor
              /\ stdinPos' = stdinPos + k
              /\ IF w.status = "Ok"
                 THEN /\ copied' = copied + k
                      /\ UNCHANGED <<pc, faults, workResult, exitCode>>
                 ELSE /\ pc' = "exit"
                      /\ exitCode' = IF w.status = "Panic" THEN 101 ELSE 1
                      /\ workResult' = IF w.status = "Panic" THEN "Panic" ELSE "CaptureError"
                      /\ UNCHANGED <<copied, faults>>
    /\ UNCHANGED <<handleVars, libVars, execVars, parserVars, cfg, probe, stdinData, stdinEof, file, read,
                   written, stdoutVars, copies>>

\* read() returns 0: io::copy returns Ok(copied); `bytes` is frozen and the
\* io::copy to stdout starts, from a BufferReader over bytes[..read].
BufferedReadEof ==
    /\ pc = "buffered_copy_in"
    /\ StdinAtEof
    /\ stdinEof' = TRUE
    /\ read' = copied
    /\ pc' = "buffered_copy_out"
    /\ cursor' = 0
    /\ copied' = 0
    /\ copies' = [copies EXCEPT !.out = @ + 1]
    /\ UNCHANGED <<handleVars, libVars, execVars, parserVars, cfg, probe, stdinData, stdinPos, bytes, file,
                   written, stdoutVars, faults, workResult, exitCode>>

\* read() of stdin fails: "Failed to read into buffer".
BufferedReadFail ==
    /\ pc = "buffered_copy_in"
    /\ Fail("CaptureError", {"read"})
    /\ UNCHANGED <<handleVars, libVars, execVars, parserVars, cfg, probe, stdinVars, bufferVars, stdoutVars, copies>>

\* One round of io::copy(reader, stdout): BufferReader::read fills a slice
\* of k bytes and write_all puts what it got on stdout.
BufferedWriteChunk ==
    /\ pc = "buffered_copy_out"
    /\ \E k \in 1..MaxChunk :
        LET got == CopyToSlice(SubSeq(bytes, 1, read), cursor, k)
        IN /\ got # <<>>
           /\ stdout' = stdout \o got
           /\ cursor' = cursor + Len(got)
           /\ copied' = copied + Len(got)
    /\ UNCHANGED <<handleVars, libVars, execVars, parserVars, pc, cfg, probe, stdinVars, bytes, file, read,
                   written, stdoutLen, setLen, closes, copies, faults,
                   workResult, exitCode>>

\* BufferReader::read returns 0: io::copy returns Ok(copied).
BufferedWriteEof ==
    /\ pc = "buffered_copy_out"
    /\ CopyToSlice(SubSeq(bytes, 1, read), cursor, MaxChunk) = <<>>
    /\ written' = copied
    /\ pc' = "verify"
    /\ UNCHANGED <<handleVars, libVars, execVars, parserVars, cfg, probe, stdinVars, bytes, cursor, file,
                   copied, read, stdoutVars, copies, faults, workResult, exitCode>>

\* write() to stdout fails: "Failed to write from buffer".
BufferedWriteFail ==
    /\ pc = "buffered_copy_out"
    /\ Fail("ReplayError", {"write"})
    /\ UNCHANGED <<handleVars, libVars, execVars, parserVars, cfg, probe, stdinVars, bufferVars, stdoutVars, copies>>

(***************************************************************************)
(* work::memfd()                                                           *)
(***************************************************************************)
\* `buffsz`: try_get_size(&stdin).or_else(DEFAULT_BUFFER_SIZE), None as 0.
BuffSz ==
    IF TryGetSize # 0 THEN TryGetSize
    ELSE IF cfg.preallocate THEN DefaultPreallocate ELSE 0

\* Whether memfd() compares the file with the copy's count after the copy:
\* cfg!(any(feature="memfile-preallocate", debug_assertions)).
Reconciles == cfg.preallocate \/ cfg.debug

\* The closure set_stdout_len(len) under memfile-size-output: RunOnce::try_run
\* runs ftruncate(STDOUT_FILENO, len) when try_take gives the closure.
SetStdoutLenRuns == cfg.sizeOutput /\ TryTake(setLen).some

\* main() enters work::memfd() with a known stdin size under
\* memfile-size-output: stdout is given that length first.
MemfdPreset ==
    /\ pc = "work"
    /\ cfg.memfile
    /\ cfg.sizeOutput /\ TryGetSize # 0
    /\ \/ /\ SetStdoutLenRuns
          /\ stdoutLen' = TryGetSize
          /\ setLen' = TryTake(setLen).cell
          /\ pc' = "memfd_create"
          /\ UNCHANGED <<faults, workResult, exitCode>>
       \/ /\ SetStdoutLenRuns
          /\ Fail("SetLenError", {"ftruncate_stdout"})
          /\ UNCHANGED <<stdoutLen, setLen>>
    /\ UNCHANGED <<handleVars, libVars, execVars, parserVars, cfg, probe, stdinVars, bufferVars, stdout,
                   closes, copies>>

\* main() enters work::memfd(); no length is pre-set on stdout.
MemfdStart ==
    /\ pc = "work"
    /\ cfg.memfile
    /\ ~(cfg.sizeOutput /\ TryGetSize # 0)
    /\ pc' = "memfd_create"
    /\ UNCHANGED <<handleVars, libVars, execVars, parserVars, runVars>>

\* memfile::create_memfile(.., buffsz) succeeds; io::copy from stdin starts.
MemfdCreate ==
    /\ pc = "memfd_create"
    /\ file' = OpenMem(BuffSz)
    /\ copied' = 0
    /\ copies' = [copies EXCEPT !.in = @ + 1]
    /\ pc' = "memfd_copy_in"
    /\ UNCHANGED <<handleVars, libVars, execVars, parserVars, cfg, probe, stdinVars, bytes, cursor, read,
                   written, stdoutVars, faults, workResult, exitCode>>

\* memfd_create fails, or fallocate does (called only for a length > 0):
\* "Failed to create in-memory buffer".
MemfdCreateFail ==
    /\ pc = "memfd_create"
    /\ \/ Fail("CreateError", {"memfd_create"})
       \/ /\ BuffSz > 0
          /\ Fail("CreateError", {"fallocate"})
    /\ UNCHANGED <<handleVars, libVars, execVars, parserVars, cfg, probe, stdinVars, bufferVars, stdoutVars, copies>>

\* One round of io::copy(stdin, file): k bytes go from stdin into the file.
MemfdReadChunk ==
    /\ pc = "memfd_copy_in"
    /\ \E k \in 1..MaxChunk :
        /\ stdinPos + k <= Len(stdinData)
        /\ file' = FileWrite(file, SubSeq(stdinData, stdinPos + 1, stdinPos + k))
        /\ stdinPos' = stdinPos + k
        /\ copied' = copied + k
    /\ UNCHANGED <<handleVars, libVars, execVars, parserVars, pc, cfg, probe, stdinData, stdinEof, bytes, cursor,
                   read, written, stdoutVars, copies, faults, workResult, exitCode>>

\* stdin is at its end: io::copy returns Ok(copied).
MemfdReadEof ==
    /\ pc = "memfd_copy_in"
    /\ StdinAtEof
    /\ stdinEof' = TRUE
    /\ read' = copied
    /\ pc' = IF Reconciles THEN "memfd_reconcile" ELSE "memfd_seek"
    /\ UNCHANGED <<handleVars, libVars, execVars, parserVars, cfg, probe, stdinData, stdinPos, bytes, cursor,
                   file, copied, written, stdoutVars, copies, faults, workResult,
                   exitCode>>

\* A read of stdin or a write to the file fails during the copy.
MemfdReadFail ==
    /\ pc = "memfd_copy_in"
    /\ \/ Fail("CaptureError", {"read"})
       \/ Fail("CaptureError", {"write_file"})
    /\ UNCHANGED <<handleVars, libVars, execVars, parserVars, cfg, probe, stdinVars, bufferVars, stdoutVars, copies>>

\* `read` after the comparison with file.stream_position(): the position when
\* lseek reports one, the copy's count otherwise.
ReadAfterPosition(spOk) == IF spOk THEN file.pos ELSE read

\* The reconciliation of the file's length with `read`; lseek, fstat and
\* ftruncate each succeed or fail.  A failed ftruncate is ignored when fstat
\* had failed too.
MemfdReconcile ==
    /\ pc = "memfd_reconcile"
    /\ \E spOk \in BOOLEAN, slOk \in BOOLEAN, trOk \in BOOLEAN :
        LET r == ReadAfterPosition(spOk)
            truncates == IF slOk THEN Len(file.data) # r ELSE TRUE
        IN /\ slOk \/ truncates
           /\ (truncates /\ ~trOk) => ~slOk
           /\ (~truncates) => trOk
           /\ read' = r
           /\ file' = IF truncates /\ trOk
                      THEN [file EXCEPT !.data = SetLen(file.data, r)]
                      ELSE file
           /\ faults' = faults \cup (IF spOk THEN {} ELSE {"lseek"})
                               \cup (IF slOk THEN {} ELSE {"fstat"})
                               \cup (IF trOk THEN {} ELSE {"ftruncate"})
    /\ pc' = "memfd_seek"
    /\ UNCHANGED <<handleVars, libVars, execVars, parserVars, cfg, probe, stdinVars, bytes, cursor, copied,
                   written, stdoutVars, copies, workResult, exitCode>>

\* The file's length differs from `read` and ftruncate fails: "Failed to
\* truncate stream to correct length".
MemfdReconcileFail ==
    /\ pc = "memfd_reconcile"
    /\ \E spOk \in BOOLEAN :
        /\ Len(file.data) # ReadAfterPosition(spOk)
        /\ Fail("TruncateError", {"ftruncate"} \cup (IF spOk THEN {} ELSE {"lseek"}))
    /\ UNCHANGED <<handleVars, libVars, execVars, parserVars, cfg, probe, stdinVars, bufferVars, stdoutVars, copies>>

\* file.seek(SeekFrom::Start(0)) succeeds.
MemfdSeek ==
    /\ pc = "memfd_seek"
    /\ file' = [file EXCEPT !.pos = 0]
    /\ pc' = "memfd_set_len"
    /\ UNCHANGED <<handleVars, libVars, execVars, parserVars, cfg, probe, stdinVars, bytes, cursor, copied,
                   read, written, stdoutVars, copies, faults, workResult, exitCode>>

\* "Failed to seek back to start of memory buffer file for output".
MemfdSeekFail ==
    /\ pc = "memfd_seek"
    /\ Fail("SeekError", {"lseek"})
    /\ UNCHANGED <<handleVars, libVars, execVars, parserVars, cfg, probe, stdinVars, bufferVars, stdoutVars, copies>>

\* set_stdout_len(read) returns Ok: the feature is off, or the RunOnce gives
\* no closure, or ftruncate(STDOUT_FILENO, read) succeeds.  Then io::copy to
\* stdout starts.
MemfdSetStdoutLen ==
    /\ pc = "memfd_set_len"
    /\ IF SetStdoutLenRuns
       THEN /\ stdoutLen' = read
            /\ setLen' = TryTake(setLen).cell
       ELSE UNCHANGED <<stdoutLen, setLen>>
    /\ copied' = 0
    /\ copies' = [copies EXCEPT !.out = @ + 1]
    /\ pc' = "memfd_copy_out"
    /\ UNCHANGED <<handleVars, libVars, execVars, parserVars, cfg, probe, stdinVars, bytes, cursor, file, read,
                   written, stdout, closes, faults, workResult, exitCode>>

\* "Failed to `ftruncate()` stdout after collection of {read} bytes".
MemfdSetStdoutLenFail ==
    /\ pc = "memfd_set_len"
    /\ SetStdoutLenRuns
    /\ Fail("SetLenError", {"ftruncate_stdout"})
    /\ UNCHANGED <<handleVars, libVars, execVars, parserVars, cfg, probe, stdinVars, bufferVars, stdoutVars, copies>>

\* One round of io::copy(file, stdout): up to k bytes are read at the file's
\* offset and written to stdout.
MemfdWriteChunk ==
    /\ pc = "memfd_copy_out"
    /\ \E k \in 1..MaxChunk :
        LET got == FileRead(file, k)
        IN /\ Len(got) = k
           /\ stdout' = stdout \o got
           /\ file' = [file EXCEPT !.pos = @ + k]
           /\ copied' = copied + k
    /\ UNCHANGED <<handleVars, libVars, execVars, parserVars, pc, cfg, probe, stdinVars, bytes, cursor, read,
                   written, stdoutLen, setLen, closes, copies, faults,
                   workResult, exitCode>>

\* The file is at its end: io::copy returns Ok(copied).
MemfdWriteEof ==
    /\ pc = "memfd_copy_out"
    /\ FileRead(file, MaxChunk) = <<>>
    /\ written' = copied
    /\ pc' = "verify"
    /\ UNCHANGED <<handleVars, libVars, execVars, parserVars, cfg, probe, stdinVars, bytes, cursor, file, copied,
                   read, stdoutVars, copies, faults, workResult, exitCode>>

\* A read of the file or a write to stdout fails: "Failed to write buffer to
\* stdout".
MemfdWriteFail ==
    /\ pc = "memfd_copy_out"
    /\ \/ Fail("ReplayError", {"read_file"})
       \/ Fail("ReplayError", {"write"})
    /\ UNCHANGED <<handleVars, libVars, execVars, parserVars, cfg, probe, stdinVars, bufferVars, stdoutVars, copies>>

(***************************************************************************)
(* The end of both strategies, and of main().                              *)
(***************************************************************************)
\* `if read != written as usize { return Err(..) }`
SizeMismatchMut(r, w) == FALSE
SizeMismatch(r, w) == r # w

\* The byte-count check fails: "Writing failed: size mismatch".
VerifyMismatch ==
    /\ pc = "verify"
    /\ SizeMismatch(read, written)
    /\ Fail("SizeMismatch", {})
    /\ UNCHANGED <<handleVars, libVars, execVars, parserVars, cfg, probe, stdinVars, bufferVars, stdoutVars, copies>>

\* The byte-count check passes: the strategy returns Ok(()).
VerifyOk ==
    /\ pc = "verify"
    /\ ~SizeMismatch(read, written)
    /\ workResult' = "Ok"
    /\ pc' = "close_stdout"
    /\ UNCHANGED <<handleVars, libVars, execVars, parserVars, cfg, probe, stdinVars, bufferVars, stdoutVars,
                   copies, faults, exitCode>>

\* The exit status after `close_fileno(stdout_fd)...?; Ok(())`: the Err of a
\* failed close is what main() returns.
ExitAfterCloseMut(ok) == 0
ExitAfterClose(ok) == IF ok THEN 0 ELSE 1

\* close_fileno(STDOUT_FILENO) succeeds and main() returns Ok(()).
CloseStdout ==
    /\ pc = "close_stdout"
    /\ closes' = closes + 1
    /\ pc' = "exit"
    /\ exitCode' = ExitAfterClose(TRUE)
    /\ UNCHANGED <<handleVars, libVars, execVars, parserVars, cfg, probe, stdinVars, bufferVars, stdout,
                   stdoutLen, setLen, copies, faults, workResult>>

\* close(STDOUT_FILENO) fails: "Failed to close stdout".
CloseStdoutFail ==
    /\ pc = "close_stdout"
    /\ closes' = closes + 1
    /\ pc' = "exit"
    /\ exitCode' = ExitAfterClose(FALSE)
    /\ faults' = faults \cup {"close"}
    /\ UNCHANGED <<handleVars, libVars, execVars, parserVars, cfg, probe, stdinVars, bufferVars, stdout,
                   stdoutLen, setLen, copies, workResult>>


(***************************************************************************)
(* The whole program.                                                      *)
(***************************************************************************)
\* The command lines the run is explored with: none, one that parses to a
\* spec, one with two specs, and the two kinds of parse error.
MainArgvs ==
    {<<>>, <<"-exec", "c", "a">>, <<"-exec{}", "c", "{}", ";", "-exec", "c">>,
     <<"a">>, <<"-exec", "c", ";", "-exec{}">>}

Init ==
    /\ \E a \in MainArgvs : ParserInit(a)
    /\ pc = "parse_args"
    /\ RunInit
    /\ ExecIdle
    /\ HandleIdle
    /\ LibIdle

Next ==
    \/ ParseExec \/ ParseExecNoCommand \/ ParseUnknownOption \/ ParseEnd
    \/ MainParseFailed
    \/ BufferedStart \/ BufferedReadChunk \/ BufferedReadEof \/ BufferedReadFail
    \/ BufferedWriteChunk \/ BufferedWriteEof \/ BufferedWriteFail
    \/ MemfdPreset \/ MemfdStart \/ MemfdCreate \/ MemfdCreateFail
    \/ MemfdReadChunk \/ MemfdReadEof \/ MemfdReadFail
    \/ MemfdReconcile \/ MemfdReconcileFail
    \/ MemfdSeek \/ MemfdSeekFail
    \/ MemfdSetStdoutLen \/ MemfdSetStdoutLenFail
    \/ MemfdWriteChunk \/ MemfdWriteEof \/ MemfdWriteFail
    \/ VerifyMismatch \/ VerifyOk
    \/ CloseStdout \/ CloseStdoutFail

Spec == Init /\ [][Next]_vars

(***************************************************************************)
(* exec.rs: spawn_from_sync(file, opt) driven to its end by a caller.  The *)
(* iterator it returns is lazy: each next() takes one spec from Options,   *)
(* runs run_single on it and, if a child came of it, waits for the child.  *)
(***************************************************************************)
\* The descriptor of the captured data, `file`.
DataFd == 3

\* The exit codes a child may end with in the model.
ExitCodes == {0, 1}

\* dup(2) returns the lowest descriptor number not open in the process.
LowestFreeMut(open) == DataFd
LowestFree(open) ==
    CHOOSE n \in 0..(Cardinality(open)) : n \notin open /\ \A m \in 0..(n - 1) : m \in open

\* process::id() of the parent.
ProcessId == 4711

\* proc_file(file): format!("/proc/{pid}/fd/{fd}"), the path of a descriptor
\* of this process.
ProcFileMut(fd) == "/proc/" \o ToString(ProcessId) \o "/fd/" \o ToString(DataFd)
ProcFile(fd) == "/proc/" \o ToString(ProcessId) \o "/fd/" \o ToString(fd)

\* The argument list Command::args is given: for Positional each None is
\* replaced by proc_file(&*input), for Stdin the strings as they are.
ChildArgsMut(spec, fd) ==
    [i \in 1..Len(spec.args) |-> ProcFile(fd)]
ChildArgs(spec, fd) ==
    [i \in 1..Len(spec.args) |->
        IF spec.args[i] = None THEN ProcFile(fd) ELSE spec.args[i][1]]

\* The spec the dispatcher is working on.
CurrentSpec == output[entry]

\* The item the closure of spawn_from_sync returns for the current entry:
\* Ok(Some(code)) / Ok(None) as "Code" / "NoCode", Err as "SpawnError"
\* ("Failed to spawn child") or "WaitError" ("Failed to wait on child").
Outcome(kind, code) == [entry |-> entry, kind |-> kind, code |-> code]

\* Iterator::next on the iterator of spawn_from_sync: map(run_single) takes
\* the next spec from opt.into_opt_exec().
NextEntryReadyMut == TRUE
NextEntryReady == step = "next"

ExecTake ==
    /\ dispatch = "running"
    /\ NextEntryReady
    /\ entry < Len(output)
    /\ entry' = entry + 1
    /\ step' = "dup"
    /\ UNCHANGED <<parserVars, pc, runVars, handleVars, libVars, dispatch, input, stdinFd, openFds,
                   children, outcomes, storage, offset>>

\* into_opt_exec() has no spec left.
ExhaustedMut ==
    \/ entry = Len(output)
    \/ outcomes # <<>> /\ outcomes[Len(outcomes)].kind \in {"SpawnError", "WaitError"}
Exhausted == entry = Len(output)

\* into_opt_exec() is exhausted: the iterator returns None.
ExecExhausted ==
    /\ dispatch = "running"
    /\ step = "next"
    /\ Exhausted
    /\ dispatch' = "done"
    /\ UNCHANGED <<parserVars, pc, runVars, handleVars, libVars, entry, step, input, stdinFd, openFds,
                   children, outcomes, storage, offset>>

\* run_single: `input = ManuallyDrop::new(dup_file(file)?)`.  A failed dup is
\* the entry's outcome, wrapped as "Failed to spawn child".
RunSingleDup ==
    /\ dispatch = "running"
    /\ step = "dup"
    /\ \/ /\ input' = LowestFree(openFds)
          /\ openFds' = openFds \cup {LowestFree(openFds)}
          /\ step' = IF CurrentSpec.mode = "Stdin" THEN "stdin" ELSE "spawn"
          /\ UNCHANGED outcomes
       \/ /\ outcomes' = Append(outcomes, Outcome("SpawnError", -1))
          /\ step' = "next"
          /\ UNCHANGED <<input, openFds>>
    /\ UNCHANGED <<parserVars, pc, runVars, handleVars, libVars, dispatch, entry, stdinFd, children,
                   storage, offset>>

\* file.seek(SeekFrom::Start(0)) on `input`, a dup(2) of `file`: the two
\* descriptors refer to one open file description, whose offset the seek
\* sets.  When the seek fails the offset stays.
SeekStartMut(off, ok) == 0
SeekStart(off, ok) == IF ok THEN 0 ELSE off

\* run_stdin(Some(input), ..): the file is sought to 0 (a failure is only
\* logged) and `dup_file(file).unwrap()` makes the descriptor for the
\* child's stdin; when that dup fails the unwrap panics, and the unwinding
\* drops `file`.
RunStdinDup ==
    /\ dispatch = "running"
    /\ step = "stdin"
    /\ \E ok \in BOOLEAN : offset' = SeekStart(offset, ok)
    /\ \/ /\ stdinFd' = LowestFree(openFds)
          /\ openFds' = openFds \cup {LowestFree(openFds)}
          /\ step' = "spawn"
          /\ UNCHANGED <<dispatch, input>>
       \/ /\ dispatch' = "panicked"
          /\ openFds' = openFds \ {input}
          /\ input' = 0
          /\ UNCHANGED <<stdinFd, step>>
    /\ UNCHANGED <<parserVars, pc, runVars, handleVars, libVars, entry, children, outcomes, storage>>

\* What of the entry's descriptors the parent closes when run_stdin returns:
\* the Command (and the Stdio it owns) is dropped in every case.
ClosedAfterSpawn == IF stdinFd # 0 THEN {stdinFd} ELSE {}

\* What the parent closes when the entry's item is complete: Some(file) of
\* Stdin mode is dropped; the ManuallyDrop `input` of Positional mode is not.
ClosedAfterEntry ==
    IF CurrentSpec.mode = "Stdin" /\ input # 0 THEN {input} ELSE {}

\* Command::new(filename).args(args).stdin(..).spawn() succeeds: the child
\* runs with stdin from the duplicate (Stdin) or from /dev/null (0 here).
SpawnChild ==
    /\ dispatch = "running"
    /\ step = "spawn"
    /\ children' = Append(children,
            [entry |-> entry,
             command |-> CurrentSpec.command,
             args |-> ChildArgs(CurrentSpec, input),
             input |-> input,
             stdin |-> stdinFd,
             stdinAt |-> IF stdinFd # 0 THEN offset ELSE -1,
             got |-> <<>>,
             stdout |-> "inherit",
             stderr |-> "inherit",
             status |-> "running",
             code |-> -1,
             waits |-> 0])
    /\ openFds' = openFds \ ClosedAfterSpawn
    /\ stdinFd' = 0
    /\ step' = "wait"
    /\ UNCHANGED <<parserVars, pc, runVars, handleVars, libVars, dispatch, entry, input, outcomes,
                   storage, offset>>

\* spawn() fails: `?` returns the error from run_stdin, `file` is dropped,
\* and the entry's outcome is "Failed to spawn child".
SpawnFail ==
    /\ dispatch = "running"
    /\ step = "spawn"
    /\ outcomes' = Append(outcomes, Outcome("SpawnError", -1))
    /\ openFds' = (openFds \ ClosedAfterSpawn) \ ClosedAfterEntry
    /\ stdinFd' = 0
    /\ input' = 0
    /\ step' = "next"
    /\ UNCHANGED <<parserVars, pc, runVars, handleVars, libVars, dispatch, entry, children, storage,
                   offset>>

\* A running child ends, with an exit code or by a signal.
ChildExit ==
    /\ \E i \in 1..Len(children) :
        /\ children[i].status = "running"
        /\ \/ \E c \in ExitCodes :
                children' = [children EXCEPT ![i].status = "exited", ![i].code = c]
           \/ children' = [children EXCEPT ![i].status = "signaled"]
    /\ UNCHANGED <<parserVars, pc, runVars, handleVars, libVars, dispatch, entry, step, input, stdinFd,
                   openFds, outcomes, storage, offset>>

\* A running child whose stdin is the duplicate reads from it: the bytes at
\* the offset of the open file description, which moves on by as many.
ChildRead ==
    /\ \E i \in 1..Len(children), n \in 1..MaxChunk :
        /\ children[i].status = "running"
        /\ children[i].stdin # 0
        /\ offset + n <= Len(storage)
        /\ children' = [children EXCEPT
                ![i].got = @ \o SubSeq(storage, offset + 1, offset + n)]
        /\ offset' = offset + n
    /\ UNCHANGED <<parserVars, pc, runVars, handleVars, libVars, dispatch, entry, step, input, stdinFd,
                   openFds, outcomes, storage>>

\* ExitStatus::code() of an ended child as the entry's item: Some(code)
\* after an exit, None after a signal.
StatusCodeMut(child) ==
    IF child.status = "exited" THEN Outcome("Code", child.code) ELSE Outcome("Code", -1)
StatusCode(child) ==
    IF child.status = "exited" THEN Outcome("Code", child.code) ELSE Outcome("NoCode", -1)

\* child.0.wait() returns once the child has ended: Ok(status), and
\* status.code() is the item.
WaitChild ==
    /\ dispatch = "running"
    /\ step = "wait"
    /\ children[Len(children)].status # "running"
    /\ children' = [children EXCEPT ![Len(children)].waits = @ + 1]
    /\ outcomes' = Append(outcomes, StatusCode(children[Len(children)]))
    /\ openFds' = openFds \ ClosedAfterEntry
    /\ input' = 0
    /\ step' = "next"
    /\ UNCHANGED <<parserVars, pc, runVars, handleVars, libVars, dispatch, entry, stdinFd, storage,
                   offset>>

\* child.0.wait() returns an error: "Failed to wait on child".
WaitFail ==
    /\ dispatch = "running"
    /\ step = "wait"
    /\ children' = [children EXCEPT ![Len(children)].waits = @ + 1]
    /\ outcomes' = Append(outcomes, Outcome("WaitError", -1))
    /\ openFds' = openFds \ ClosedAfterEntry
    /\ input' = 0
    /\ step' = "next"
    /\ UNCHANGED <<parserVars, pc, runVars, handleVars, libVars, dispatch, entry, stdinFd, storage,
                   offset>>

\* The command lines the dispatcher is explored with.
ExecArgvs ==
    {<<"-exec", "c">>,
     <<"-exec{}", "c", "{}", "a", "{}">>,
     <<"-exec{}", "c", "a", "a">>,
     <<"-exec", "c", "{}", ";", "-exec{}", "c", "{}">>,
     <<"-exec{}", "c", "a", ";", "-exec", "a", ";", "-exec", "c">>}

\* The captured data the dispatcher is explored with.
ExecData == {<<0, 1>>}

\* spawn_from_sync(file, opt) has been called with the Options parse_from
\* returned and the descriptor of the captured data, which the caller has
\* either left at its start or read to its end.
InitExec ==
    /\ \E a \in ExecArgvs :
        LET st == ParserRun(ParserStart(a))
        IN /\ argv = a
           /\ args = st.args
           /\ idx = st.idx
           /\ output = st.output
           /\ parsed = st.parsed
           /\ lastExec = st.lastExec
    /\ pc = "dispatch"
    /\ RunIdle
    /\ dispatch = "running"
    /\ entry = 0
    /\ step = "next"
    /\ input = 0
    /\ stdinFd = 0
    /\ openFds = STDIO_FDS \cup {DataFd}
    /\ children = <<>>
    /\ outcomes = <<>>
    /\ storage \in ExecData
    /\ offset \in {0, Len(storage)}
    /\ HandleIdle
    /\ LibIdle

NextExec ==
    \/ ExecTake \/ ExecExhausted
    \/ RunSingleDup \/ RunStdinDup
    \/ SpawnChild \/ SpawnFail
    \/ ChildExit \/ ChildRead
    \/ WaitChild \/ WaitFail

SpecExec == InitExec /\ [][NextExec]_vars

(***************************************************************************)
(* memfile/fd.rs and memfile.rs: RawFileDescriptor and RawFile, the owner  *)
(* of a descriptor, used by a caller in any order.                         *)
(***************************************************************************)
\* How many descriptors the process is given in one exploration.
MaxOpened == 3

\* c_int::MIN and c_int::MAX.
I32Min == -2147483647 - 1
I32Max == -(I32Min + 1)

\* `from as u32` and back: the 32 bits of an i32, kept as the top bit and
\* the value of the low 31 bits.
AsU32(i) ==
    IF i < 0 THEN [top |-> TRUE, low |-> i - I32Min] ELSE [top |-> FALSE, low |-> i]
AsI32(u) == IF u.top THEN u.low + I32Min ELSE u.low

\* NonNegativeI32::MASK is the top bit: `x | MASK` and `x & !MASK`.
OrMask(u) == [u EXCEPT !.top = TRUE]
AndNotMask(u) == [u EXCEPT !.top = FALSE]

\* NonNegativeI32::new_unchecked, ::get and ::new.
NewUnchecked(from) == OrMask(AsU32(from))
NonNegativeGetMut(x) == AsI32(x)
NonNegativeGet(x) == AsI32(AndNotMask(x))
NonNegativeNewMut(from) == IF from <= 0 THEN None ELSE Some(NewUnchecked(from))
NonNegativeNew(from) == IF from < 0 THEN None ELSE Some(NewUnchecked(from))

\* <NonNegativeI32 as TryFrom<i32>>::try_from(from): the `?` on
\* NonZeroU32::try_from((!from as u32) & MASK), the debug_assert!(from >= 0)
\* of a build with debug assertions, then new_unchecked(from).
NonNegativeTryFrom(from, debug) ==
    LET \* `!x` on the 32 bits, and `x & MASK`
        Not(u) == [top |-> ~u.top, low |-> I32Max - u.low]
        Masked(u) == [u EXCEPT !.low = 0]
        \* NonZeroU32::try_from(u): the value unless it is 0
        NonZero(u) == IF u.top \/ u.low # 0 THEN Some(u) ELSE None
    IN IF NonZero(Masked(Not(AsU32(from)))) = None
       THEN [ok |-> FALSE, value |-> NewUnchecked(0), panicked |-> FALSE]
       ELSE [ok |-> TRUE, value |-> NewUnchecked(from),
             panicked |-> debug /\ ~(from >= 0)]

\* RawFileDescriptor::try_new(fd): Ok(Self(n)) or Err(BadFDError(())).
TryNew(fd) ==
    LET n == NonNegativeNew(fd)
    IN IF n = None THEN [ok |-> FALSE, desc |-> NewUnchecked(0), err |-> "BadFDError"]
       ELSE [ok |-> TRUE, desc |-> n[1], err |-> "none"]

\* RawFileDescriptor::get.
Get(desc) == NonNegativeGet(desc)

\* RawFile::take_ownership_of_raw(fd): `fd.try_into().map_err(|_| fd)?`.
TakeOwnershipOfRaw(fd) ==
    LET r == TryNew(fd)
    IN IF r.ok THEN [ok |-> TRUE, desc |-> r.desc, err |-> 0]
       ELSE [ok |-> FALSE, desc |-> r.desc, err |-> fd]

\* A RawFile holds a RawFileDescriptor; an fs::File holds the descriptor
\* as it is.
RawFile(desc) == [kind |-> "RawFile", desc |-> desc]
File(fd) == [kind |-> "File", desc |-> AsU32(fd)]

\* AsRawFd::as_raw_fd of either.
Fileno(o) == IF o.kind = "RawFile" THEN Get(o.desc) ELSE AsI32(o.desc)

\* The descriptors owned by the live objects.
Owned == {Fileno(objects[i]) : i \in DOMAIN objects}

Remove(s, i) == SubSeq(s, 1, i - 1) \o SubSeq(s, i + 1, Len(s))

\* DuplicateError::new_dup(from).
DuplicateErrorNewDupMut(from) == [from |-> -1, to |-> "Duplicate"]
DuplicateErrorNewDup(from) == [from |-> Fileno(from), to |-> "Duplicate"]

\* What into_raw_fd closes: `mem::forget(self)` keeps Drop from running.
IntoRawFdClosesMut(fd) == {fd}
IntoRawFdCloses(fd) == {}

\* close(fd) is called by owner i, which is being destroyed: the call is a
\* bad one when the descriptor is not open, is held by the caller, or is
\* owned by another object too.
BadClose(fd, i) ==
    \/ fd \notin fdTable
    \/ fd \in rawFds
    \/ \E j \in DOMAIN objects : j # i /\ Fileno(objects[j]) = fd

\* The value of an operation that returns no Result worth keeping.
NoResult(op) == [op |-> op, ok |-> TRUE, arg |-> 0, fd |-> 0, err |-> "none"]

\* A usize of 64 bits, kept as its top bit and the value of the bits below.
LenInputs ==
    {[top |-> FALSE, low |-> 0], [top |-> FALSE, low |-> 1],
     [top |-> FALSE, low |-> I32Max], [top |-> TRUE, low |-> 0]}

\* `len > 0`, and whether `len.try_into()` to off_t succeeds.
NonZeroLen(len) == len.top \/ len.low > 0
FitsOffT(len) == ~len.top

\* The calls of open_mem that can be the first to fail ("none": no call
\* fails): memfd_create; for len > 0 the conversion to off_t, which fails
\* exactly when len does not fit, then fallocate and, with debug_assertions,
\* the check of the offset by lseek.
OpenMemOutcomes(len, debug) ==
    {"memfd_create"} \cup
    (IF ~NonZeroLen(len) THEN {"none"}
     ELSE IF ~FitsOffT(len) THEN {"try_into"}
     ELSE {"none", "fallocate"} \cup (IF debug THEN {"lseek"} ELSE {}))

\* The MemfileCreationStep the error is made of: Create(..) from
\* memfd_create, Allocate(None, len) from the conversion, Allocate(Some(fd),
\* len) from fallocate; the offset check panics instead.
StepOfMut(failed) ==
    CASE failed = "memfd_create" -> "Create"
      [] failed = "try_into" -> "Allocate"
      [] failed = "fallocate" -> "Create"
      [] failed = "lseek" -> "Panic"
      [] OTHER -> "none"
StepOf(failed) ==
    CASE failed = "memfd_create" -> "Create"
      [] failed = "try_into" -> "Allocate"
      [] failed = "fallocate" -> "Allocate"
      [] failed = "lseek" -> "Panic"
      [] OTHER -> "none"

\* RawFile::open_mem(name, len): memfd_create, the descriptor is owned at
\* once, then for len > 0 the conversion and fallocate; when one of them
\* fails the `?` drops the RawFile, which closes the descriptor, and so does
\* the unwinding of the panic.
RawFileOpenMem(len, debug, failed) ==
    /\ opened < MaxOpened
    /\ failed \in OpenMemOutcomes(len, debug)
    /\ LET fd == LowestFree(fdTable)
       IN /\ returned' = [op |-> "open_mem", ok |-> failed = "none", arg |-> len,
                           fd |-> IF failed \in {"none", "fallocate"} THEN fd ELSE -1,
                           err |-> StepOf(failed), failed |-> failed,
                           debug |-> debug]
          /\ IF failed = "memfd_create"
             THEN UNCHANGED <<objects, fdTable, opened, closeCalls>>
             ELSE IF failed = "none"
             THEN /\ objects' = Append(objects, RawFile(NewUnchecked(fd)))
                  /\ fdTable' = fdTable \cup {fd}
                  /\ opened' = opened + 1
                  /\ UNCHANGED closeCalls
             ELSE /\ opened' = opened + 1
                  /\ closeCalls' = closeCalls + 1
                  /\ UNCHANGED <<objects, fdTable>>
    /\ UNCHANGED <<parserVars, pc, runVars, execVars, libVars, rawFds, badCloses>>

\* RawFile::try_clone(&self): dup(2); -1 is Err(DuplicateError::new_dup(self)),
\* anything else is owned by a new RawFile.
TryClone(i) ==
    /\ objects[i].kind = "RawFile"
    /\ \/ /\ opened < MaxOpened
          /\ LET fd == LowestFree(fdTable)
             IN /\ objects' = Append(objects, RawFile(NewUnchecked(fd)))
                /\ fdTable' = fdTable \cup {fd}
                /\ returned' = [op |-> "try_clone", ok |-> TRUE,
                              arg |-> Fileno(objects[i]), fd |-> fd, err |-> "none"]
          /\ opened' = opened + 1
       \/ /\ returned' = [op |-> "try_clone", ok |-> FALSE,
                        arg |-> Fileno(objects[i]), fd |-> -1,
                        err |-> DuplicateErrorNewDup(objects[i])]
          /\ UNCHANGED <<objects, fdTable, opened>>
    /\ UNCHANGED <<parserVars, pc, runVars, execVars, libVars, rawFds, closeCalls, badCloses>>

\* IntoRawFd for RawFile: the descriptor is handed to the caller.
IntoRawFd(i) ==
    /\ objects[i].kind = "RawFile"
    /\ LET fd == Fileno(objects[i])
       IN /\ rawFds' = rawFds \cup {fd}
          /\ fdTable' = fdTable \ IntoRawFdCloses(fd)
          /\ closeCalls' = closeCalls + Cardinality(IntoRawFdCloses(fd))
    /\ objects' = Remove(objects, i)
    /\ returned' = NoResult("into_raw_fd")
    /\ UNCHANGED <<parserVars, pc, runVars, execVars, libVars, opened, badCloses>>

\* RawFile::into_file::<fs::File>(self): T::from_raw_fd(self.into_raw_fd()).
IntoFile(i) ==
    /\ objects[i].kind = "RawFile"
    /\ LET fd == Fileno(objects[i])
       IN /\ objects' = [objects EXCEPT ![i] = File(fd)]
          /\ fdTable' = fdTable \ IntoRawFdCloses(fd)
          /\ closeCalls' = closeCalls + Cardinality(IntoRawFdCloses(fd))
    /\ returned' = NoResult("into_file")
    /\ UNCHANGED <<parserVars, pc, runVars, execVars, libVars, rawFds, opened, badCloses>>

\* RawFile::from_file(file): Self::from_raw_fd(file.into_raw_fd()), and
\* from_raw_fd is RawFileDescriptor::new(fd), which panics on Err; the file
\* has given its descriptor up by then.
FromFile(i) ==
    /\ objects[i].kind = "File"
    /\ LET r == TryNew(Fileno(objects[i]))
       IN IF r.ok
          THEN /\ objects' = [objects EXCEPT ![i] = RawFile(r.desc)]
               /\ returned' = NoResult("from_file")
               /\ UNCHANGED rawFds
          ELSE /\ objects' = Remove(objects, i)
               /\ rawFds' = rawFds \cup {Fileno(objects[i])}
               /\ returned' = [op |-> "from_file", ok |-> FALSE, arg |-> 0, fd |-> 0,
                             err |-> "Panic"]
    /\ UNCHANGED <<parserVars, pc, runVars, execVars, libVars, fdTable, opened, closeCalls,
                   badCloses>>

\* RawFile::take_ownership_of_raw(fd) on a descriptor the caller holds, or
\* on a negative number.
TakeOwnership(fd) ==
    /\ LET r == TakeOwnershipOfRaw(fd)
       IN /\ returned' = [op |-> "take_ownership_of_raw", ok |-> r.ok, arg |-> fd,
                        fd |-> Get(r.desc), err |-> r.err]
          /\ IF r.ok
             THEN /\ objects' = Append(objects, RawFile(r.desc))
                  /\ rawFds' = rawFds \ {fd}
             ELSE UNCHANGED <<objects, rawFds>>
    /\ UNCHANGED <<parserVars, pc, runVars, execVars, libVars, fdTable, opened, closeCalls,
                   badCloses>>

\* Drop for RawFile: libc::close(self.0.get()).
DropRawFile(i) ==
    /\ objects[i].kind = "RawFile"
    /\ LET fd == Fileno(objects[i])
       IN /\ fdTable' = fdTable \ {fd}
          /\ badCloses' = badCloses + (IF BadClose(fd, i) THEN 1 ELSE 0)
    /\ closeCalls' = closeCalls + 1
    /\ objects' = Remove(objects, i)
    /\ returned' = NoResult("drop")
    /\ UNCHANGED <<parserVars, pc, runVars, execVars, libVars, rawFds, opened>>

\* An fs::File made by into_file is dropped: it closes its descriptor.
DropFile(i) ==
    /\ objects[i].kind = "File"
    /\ LET fd == Fileno(objects[i])
       IN /\ fdTable' = fdTable \ {fd}
          /\ badCloses' = badCloses + (IF BadClose(fd, i) THEN 1 ELSE 0)
    /\ closeCalls' = closeCalls + 1
    /\ objects' = Remove(objects, i)
    /\ returned' = NoResult("drop_file")
    /\ UNCHANGED <<parserVars, pc, runVars, execVars, libVars, rawFds, opened>>

\* The numbers RawFileDescriptor::try_new is called with.
FdInputs == {I32Min, -2, -1, 0, 1, 2, 3, I32Max}

\* RawFileDescriptor::try_new(fd), its value kept with what get() gives.
TryNewCall(fd) ==
    /\ LET r == TryNew(fd)
       IN returned' = [op |-> "try_new", ok |-> r.ok, arg |-> fd, fd |-> Get(r.desc),
                     err |-> r.err]
    /\ UNCHANGED <<parserVars, pc, runVars, execVars, libVars, objects, fdTable, rawFds,
                   opened, closeCalls, badCloses>>

\* NonNegativeI32::new(from), its value kept with what get() gives.
NonNegativeNewCall(from) ==
    /\ LET n == NonNegativeNew(from)
       IN returned' = [op |-> "new", arg |-> from, some |-> n # None,
                     get |-> IF n = None THEN -1 ELSE NonNegativeGet(n[1])]
    /\ UNCHANGED <<parserVars, pc, runVars, execVars, libVars, objects, fdTable, rawFds,
                   opened, closeCalls, badCloses>>

\* NonNegativeI32::try_from(from), its value kept with what get() gives.
NonNegativeTryFromCall(from, debug) ==
    /\ LET r == NonNegativeTryFrom(from, debug)
       IN returned' = [op |-> "try_from", arg |-> from, ok |-> r.ok, value |-> r.value,
                     get |-> IF r.ok THEN NonNegativeGet(r.value) ELSE -1,
                     panicked |-> r.panicked]
    /\ UNCHANGED <<parserVars, pc, runVars, execVars, libVars, objects, fdTable, rawFds,
                   opened, closeCalls, badCloses>>

\* The negative numbers take_ownership_of_raw is tried with.
BadFds == {I32Min, -1}

\* A caller of memfile.rs, from a process that owns nothing yet.
InitHandle ==
    /\ ParserInit(<<>>)
    /\ pc = "handles"
    /\ RunIdle
    /\ ExecIdle
    /\ HandleIdle
    /\ LibIdle

NextHandle ==
    \/ \E len \in LenInputs, debug \in BOOLEAN,
          failed \in {"none", "memfd_create", "try_into", "fallocate", "lseek"} :
            RawFileOpenMem(len, debug, failed)
    \/ \E i \in DOMAIN objects : TryClone(i)
    \/ \E i \in DOMAIN objects : IntoRawFd(i)
    \/ \E i \in DOMAIN objects : IntoFile(i)
    \/ \E i \in DOMAIN objects : FromFile(i)
    \/ \E fd \in rawFds \cup BadFds : TakeOwnership(fd)
    \/ \E i \in DOMAIN objects : DropRawFile(i)
    \/ \E i \in DOMAIN objects : DropFile(i)
    \/ \E fd \in FdInputs : TryNewCall(fd)
    \/ \E from \in FdInputs : NonNegativeNewCall(from)
    \/ \E from \in FdInputs, debug \in BOOLEAN : NonNegativeTryFromCall(from, debug)

SpecHandle == InitHandle /\ [][NextHandle]_vars

(***************************************************************************)
(* args.rs: ExecMode::into_process_info and the iterator it returns,       *)
(* drained by a caller.                                                    *)
(***************************************************************************)
\* Longest argument list of a spec, and longest positional iterator.
MaxSpecArgs == 3
MaxPositional == 2

\* The ExecMode the parser makes of the words `taken` after the option.
ExecModeOf(mode, command, taken) ==
    IF mode = "Stdin"
    THEN [mode |-> "Stdin", command |-> command,
          args |-> [i \in 1..Len(taken) |-> StdinArg(taken[i])]]
    ELSE [mode |-> "Positional", command |-> command,
          args |-> [i \in 1..Len(taken) |-> PositionalArg(taken[i])]]

\* into_process_info(self, positional): the iterator half of the tuple.
\* Stdin keeps args.into_iter() only; Positional zips args.into_iter() with
\* positional.into_iter().fuse().
IntoProcessInfo(spec, positional) ==
    IF spec.mode = "Stdin"
    THEN [kind |-> "Stdin", vec |-> spec.args]
    ELSE [kind |-> "Positional", vec |-> spec.args, pos |-> positional]

\* ExecModeArgIterator::next: the item returned and the iterator afterwards.
ExecModeArgIteratorNextMut(it) ==
    IF it.vec = <<>>
    THEN [item |-> None, iter |-> it]
    ELSE LET rest == [it EXCEPT !.vec = Tail(@)]
         IN IF it.kind = "Stdin" \/ Head(it.vec) # None
            THEN [item |-> Head(it.vec), iter |-> rest]
            ELSE IF it.pos = <<>>
                 THEN [item |-> None, iter |-> rest]
                 ELSE [item |-> Some(Head(it.pos)),
                       iter |-> [rest EXCEPT !.pos = Tail(@)]]

RECURSIVE ExecModeArgIteratorNext(_)
ExecModeArgIteratorNext(it) ==
    IF it.vec = <<>>
    THEN [item |-> None, iter |-> it]
    ELSE LET rest == [it EXCEPT !.vec = Tail(@)]
         IN IF it.kind = "Stdin" \/ Head(it.vec) # None
            THEN [item |-> Head(it.vec), iter |-> rest]
            ELSE IF it.pos = <<>>
                 THEN ExecModeArgIteratorNext(rest)
                 ELSE [item |-> Some(Head(it.pos)),
                       iter |-> [rest EXCEPT !.pos = Tail(@)]]

\* A call of next() that returns Some(item).
ArgIterNext ==
    /\ iter.kind # "none"
    /\ LET r == ExecModeArgIteratorNext(iter)
       IN /\ r.item # None
          /\ yielded' = Append(yielded, r.item[1])
          /\ iter' = r.iter
    /\ UNCHANGED <<parserVars, pc, runVars, execVars, handleVars, given, heap, find>>

\* A call of next() that returns None.
ArgIterEnd ==
    /\ iter.kind # "none"
    /\ LET r == ExecModeArgIteratorNext(iter)
       IN /\ r.item = None
          /\ iter' = r.iter
    /\ UNCHANGED <<parserVars, pc, runVars, execVars, handleVars, yielded, given, heap, find>>

\* into_process_info has been called on a spec with a positional iterator.
InitArgs ==
    /\ ParserInit(<<>>)
    /\ pc = "args"
    /\ RunIdle
    /\ ExecIdle
    /\ HandleIdle
    /\ \E m \in {"Stdin", "Positional"},
          t \in BoundedSeq({POSITIONAL_ARG_STRING, "a", "c"}, MaxSpecArgs),
          positional \in BoundedSeq({"x", "y"}, MaxPositional) :
        LET spec == ExecModeOf(m, "c", t) IN
        /\ given = [op |-> "into_process_info", spec |-> spec,
                                                positional |-> positional]
        /\ iter = IntoProcessInfo(spec, positional)
    /\ yielded = <<>>
    /\ heap = <<>>
    /\ find = [pc |-> "none"]

NextArgs == ArgIterNext \/ ArgIterEnd

SpecArgs == InitArgs /\ [][NextArgs]_vars

(***************************************************************************)
(* buffers.rs: <Vec<u8> as MutBuffer>::copy_from_slice, called by the      *)
(* holder of a vector at any position.                                     *)
(***************************************************************************)
\* Longest vector, and longest slice written in one call.
MaxHeap == 3
MaxBuf == 2

\* One call of copy_from_slice(st, buf) on the vector.  A panic unwinds out
\* of the caller, who makes no further call.
VecCopyCall(st, buf) ==
    /\ pc = "vec"
    /\ given.op = "copy_from_slice" => ~given.panicked
    /\ LET w == VecCopyFromSlice(heap, st, buf)
       IN /\ Len(w.vec) <= MaxHeap
          /\ heap' = w.vec
          /\ given' = [op |-> "copy_from_slice", self |-> heap, st |-> st,
                       buf |-> buf, ret |-> w.ret, panicked |-> w.panicked]
    /\ UNCHANGED <<parserVars, pc, runVars, execVars, handleVars, iter, yielded, find>>

\* A caller holds some vector.
InitVec ==
    /\ ParserInit(<<>>)
    /\ pc = "vec"
    /\ RunIdle
    /\ ExecIdle
    /\ HandleIdle
    /\ iter = [kind |-> "none"]
    /\ yielded = <<>>
    /\ given = [op |-> "none"]
    /\ heap \in BoundedSeq(Byte, MaxHeap)
    /\ find = [pc |-> "none"]

SpecVec ==
    InitVec /\ [][\E st \in 0..(MaxHeap + 1), buf \in BoundedSeq(Byte, MaxBuf) :
                    VecCopyCall(st, buf)]_vars

(***************************************************************************)
(* memfile/hp.rs: find_size_bytes, the size a huge-page directory name     *)
(* stands for.  Names are sequences of one-character strings.              *)
(***************************************************************************)
\* Longest directory name, and the number of restarts of the lookup loop
\* that are told apart.
MaxName == 4
MaxSpins == 2

KMAP_TAGS == <<"k", "m", "g", "b", "B">>
KMAP_SIZES == <<1024, 1024 * 1024, 1024 * 1024 * 1024, 0, 0>>

\* The characters directory names are made of.
NameChars == {"h", "-", "2", "k", "B"}
DecimalDigits == <<"0", "1", "2", "3", "4", "5", "6", "7", "8", "9">>

\* memchr::memchr(needle, haystack): Some(index from 0 of the first
\* occurrence) or None.
Memchr(needle, haystack) ==
    IF \E i \in 1..Len(haystack) : haystack[i] = needle
    THEN Some((CHOOSE i \in 1..Len(haystack) :
                /\ haystack[i] = needle
                /\ \A j \in 1..(i - 1) : haystack[j] # needle) - 1)
    ELSE None

\* str::parse::<usize>: an optional '+', then one or more decimal digits.
\* Names of up to MaxName characters stay far below usize::MAX.
RECURSIVE DecimalValue(_)
DecimalValue(str) ==
    IF str = <<>> THEN 0
    ELSE 10 * DecimalValue(SubSeq(str, 1, Len(str) - 1))
            + (CHOOSE d \in 1..10 : DecimalDigits[d] = str[Len(str)]) - 1
ParseUsize(str) ==
    LET digits == IF str # <<>> /\ str[1] = "+" THEN Tail(str) ELSE str
    IN IF digits # <<>> /\ \A i \in 1..Len(digits) :
                             \E d \in 1..10 : DecimalDigits[d] = digits[i]
       THEN Some(DecimalValue(digits))
       ELSE None

\* kmap_lookup(sz, chr): sz times the multiplier of the tag, sz itself for
\* a tag whose size is 0 or a character that is no tag.
KmapLookup(sz, chr) ==
    IF \E i \in 1..Len(KMAP_TAGS) : KMAP_TAGS[i] = chr /\ KMAP_SIZES[i] # 0
    THEN sz * KMAP_SIZES[CHOOSE i \in 1..Len(KMAP_TAGS) : KMAP_TAGS[i] = chr]
    ELSE sz

\* `let split_loc = memchr(b'-', dir_bytes)?; split_bytes = &dir_bytes[split_loc..]`
FindSplit ==
    /\ find.pc = "split"
    /\ LET split_loc == Memchr("-", find.dir_bytes)
       IN find' = IF split_loc = None
                  THEN [find EXCEPT !.pc = "returned", !.result = None]
                  ELSE [find EXCEPT !.pc = "lookup",
                                    !.split_bytes = SubSeq(find.dir_bytes, split_loc[1] + 1,
                                                           Len(find.dir_bytes))]
    /\ UNCHANGED <<parserVars, pc, runVars, execVars, handleVars, iter, yielded, given, heap>>

\* 'lookup: the body of `for &tag in KMAP_TAGS` ends every iteration with
\* `break 'lookup` or `continue 'lookup`, and the latter starts the for loop
\* again, so the tag looked for is always the first one.  Here it is found
\* in split_bytes: `break 'lookup (k_loc, tag)`.
LookupBreak ==
    /\ find.pc = "lookup"
    /\ Memchr(KMAP_TAGS[1], find.split_bytes) # None
    /\ find' = [find EXCEPT !.pc = "kb_str",
                            !.k_loc = Memchr(KMAP_TAGS[1], find.split_bytes)[1],
                            !.k_chr = KMAP_TAGS[1]]
    /\ UNCHANGED <<parserVars, pc, runVars, execVars, handleVars, iter, yielded, given, heap>>

\* 'lookup: the tag is not found, `continue 'lookup`.  The restarts are
\* counted up to MaxSpins; the loop goes on after that.
LookupContinue ==
    /\ find.pc = "lookup"
    /\ Memchr(KMAP_TAGS[1], find.split_bytes) = None
    /\ find' = [find EXCEPT !.spins = Min(@ + 1, MaxSpins)]
    /\ UNCHANGED <<parserVars, pc, runVars, execVars, handleVars, iter, yielded, given, heap>>

\* kb_str = &split_bytes[..k_loc]; None when it is the '-' alone or its
\* rest is no number, else the number through kmap_lookup.
FindParse ==
    /\ find.pc = "kb_str"
    /\ LET kb_str == SubSeq(find.split_bytes, 1, find.k_loc)
           sz == ParseUsize(Tail(kb_str))
       IN find' = [find EXCEPT
                    !.pc = "returned",
                    !.result = IF Len(kb_str) <= 1 \/ sz = None
                               THEN None
                               ELSE Some(KmapLookup(sz[1], find.k_chr))]
    /\ UNCHANGED <<parserVars, pc, runVars, execVars, handleVars, iter, yielded, given, heap>>

\* find_size_bytes has been called with a path whose file name is dir_bytes.
InitFind ==
    /\ ParserInit(<<>>)
    /\ pc = "find_size_bytes"
    /\ RunIdle
    /\ ExecIdle
    /\ HandleIdle
    /\ iter = [kind |-> "none"]
    /\ yielded = <<>>
    /\ given = [op |-> "none"]
    /\ heap = <<>>
    /\ \E name \in BoundedSeq(NameChars, MaxName) :
        find = [pc |-> "split", dir_bytes |-> name, split_bytes |-> <<>>,
                k_loc |-> 0, k_chr |-> "", spins |-> 0, result |-> None]

NextFind == FindSplit \/ LookupBreak \/ LookupContinue \/ FindParse

\* Each step of the function is taken when it can be.
SpecFind == InitFind /\ [][NextFind]_vars /\ WF_vars(NextFind)

(***************************************************************************)
(* Claims about the run, checked under Spec.                               *)
(***************************************************************************)
\* parse_args() returned an error.
ParseFailed == parsed.kind \in {"UnknownOption", "InvalidUsage"}

\* The run is over and no system call of it failed.
FaultFreeRun == pc = "exit" /\ parsed.kind = "Ok" /\ faults = {}

\* C1: round-trip identity.  Every run with input B in which no read, write
\* or other call fails leaves exactly B on stdout, under either strategy.
C1_RoundTripIdentity == FaultFreeRun => stdout = stdinData

\* C2: two-phase ordering.  A byte is on stdout only once stdin has been read
\* to its end; the copy from stdin and the copy to stdout are each started at
\* most once, the second only after the first has met end-of-input; a run
\* that exits 0 has made each exactly once.
C2_TwoPhaseOrdering ==
    /\ stdout # <<>> => (stdinEof /\ stdinPos = Len(stdinData))
    /\ copies.in <= 1 /\ copies.out <= 1
    /\ copies.out = 1 => (copies.in = 1 /\ stdinEof /\ stdinPos = Len(stdinData))
    /\ exitCode = 0 => (copies.in = 1 /\ copies.out = 1)

\* A run that read two bytes to the end of stdin, wrote them and exited 0.
C2_Witness ==
    /\ pc = "exit" /\ exitCode = 0
    /\ Len(stdinData) = 2 /\ stdout = stdinData
    /\ copies = [in |-> 1, out |-> 1]

\* C3: byte-count verification.  The strategy returns Ok only when as many
\* bytes went to stdout as came from stdin; when the counts reaching the
\* check differ the result is the size-mismatch error and the exit status is
\* not 0.
C3_ByteCountVerification ==
    /\ workResult = "Ok" => (stdinPos = Len(stdout) /\ read = written)
    /\ (pc \in {"close_stdout", "exit"} /\ workResult \in {"Ok", "SizeMismatch"}
          /\ stdinPos # Len(stdout))
         => (workResult = "SizeMismatch" /\ pc = "exit" /\ exitCode = 1)

\* The check met different counts and refused.
C3_Witness ==
    /\ pc = "exit" /\ workResult = "SizeMismatch"
    /\ stdinPos # Len(stdout)

\* C4: memory-file reconciliation.  When the capture of the memory-file
\* strategy is complete, with no call having failed, the file is as long as
\* the input and its offset is 0.
C4_MemfileReconciled ==
    (cfg.memfile /\ pc = "memfd_set_len" /\ faults = {})
        => (Len(file.data) = Len(stdinData) /\ file.pos = 0)

\* C5: argument parse errors are fatal before capture.  When parse_args()
\* fails nothing is read from stdin, nothing is written to stdout, no copy
\* is started, and the process exits with a failure status.
C5_ParseErrorBeforeCapture ==
    ParseFailed =>
        /\ pc \in {"parse_failed", "exit"}
        /\ stdinPos = 0 /\ ~stdinEof
        /\ stdout = <<>> /\ stdoutLen = -1
        /\ copies = [in |-> 0, out |-> 0]
        /\ pc = "exit" => exitCode # 0

\* A run whose arguments did not parse has exited.
C5_Witness == ParseFailed /\ pc = "exit" /\ exitCode = 1 /\ stdinData # <<>>

\* The system calls io::copy makes in the two phases.
CopyFaults == {"read", "write_file", "read_file", "write"}

\* C6: an I/O error in either copy phase aborts the run.  A failure during
\* capture ends the run with a non-zero status and nothing on stdout; a
\* failure during replay ends it with a non-zero status; the status is 0
\* only when parsing, capture and replay all succeeded.
C6_IoErrorAborts ==
    /\ workResult = "CaptureError" => (pc = "exit" /\ exitCode # 0 /\ stdout = <<>>)
    /\ workResult = "ReplayError" => (pc = "exit" /\ exitCode # 0)
    /\ faults \cap CopyFaults # {} => (pc = "exit" /\ exitCode # 0)
    /\ exitCode = 0 =>
        /\ parsed.kind = "Ok" /\ workResult = "Ok"
        /\ stdinEof /\ copies = [in |-> 1, out |-> 1]

\* A replay that failed after a first byte had gone out.
C6_Witness ==
    /\ pc = "exit" /\ workResult = "ReplayError" /\ exitCode = 1
    /\ stdout # <<>> /\ stdout # stdinData

\* The capture phase is over: the heap buffer is frozen, or the memory file
\* has been sought back to its start; the replay is about to start, is
\* running or has run.
CaptureComplete ==
    \/ pc \in {"buffered_copy_out", "memfd_set_len", "memfd_copy_out", "verify",
               "close_stdout"}
    \/ pc = "exit" /\ copies.out > 0

\* The build reconciles the memory file's length, and no ftruncate of the
\* file has failed.
MemfileReconciled == Reconciles /\ "ftruncate" \notin faults

\* C30: immutability after capture.  Once the capture is complete the
\* length recorded (`read`) is the length of the storage (the frozen buffer;
\* the memory file when it was reconciled), and no later step of main()
\* changes the storage's contents, its length or the recorded length.
C30_ImmutableAfterCapture ==
    /\ [](CaptureComplete =>
            IF cfg.memfile
            THEN MemfileReconciled => read = Len(file.data)
            ELSE read = Len(bytes))
    /\ [][CaptureComplete =>
            (bytes' = bytes /\ file'.data = file.data /\ read' = read)]_vars

\* C30's case: a memory file preallocated larger than the input was cut to
\* the bytes read, and the replay has run over it.
C30_Witness ==
    /\ cfg.memfile
    /\ MemfileReconciled
    /\ probe > Len(stdinData)
    /\ stdinData # <<>>
    /\ pc = "close_stdout"
    /\ read = Len(file.data)
    /\ file.data = stdinData
    /\ stdout = stdinData

\* C31: standard output is closed by main() at most once, and only on the
\* way out of a run whose strategy returned Ok(()); a run whose parse,
\* capture or replay failed ends without the close; a run that ends with
\* status 0 has made the close, and a close that failed ends the run with a
\* status other than 0.
C31_StdoutClosedOnce ==
    /\ closes <= 1
    /\ closes = 1 => (pc = "exit" /\ workResult = "Ok" /\ read = written)
    /\ (pc = "exit" /\ workResult # "Ok") => closes = 0
    /\ (pc = "exit" /\ workResult = "Ok") => closes = 1
    /\ "close" \in faults => (pc = "exit" /\ exitCode # 0)
    /\ (pc = "exit" /\ exitCode = 0) => (closes = 1 /\ "close" \notin faults)

\* C31's case: the replay of a non-empty input went through and the close
\* of stdout failed.
C31_Witness ==
    /\ pc = "exit"
    /\ "close" \in faults
    /\ closes = 1
    /\ stdinData # <<>>
    /\ stdout = stdinData

\* C35: the BufferWriter that buffered() makes at offset 0 over the empty
\* Vec only appends.  While io::copy writes to it, the writer's position,
\* the vector's length and the number of bytes written are equal and the
\* vector holds the written slices in order; each write takes its whole
\* slice without a panic.
C35_HeapAppend ==
    /\ [](pc = "buffered_copy_in" =>
            /\ cursor = Len(bytes)
            /\ Len(bytes) = copied
            /\ copied = stdinPos
            /\ bytes = SubSeq(stdinData, 1, stdinPos))
    /\ [][(pc = "buffered_copy_in" /\ stdinPos' # stdinPos) =>
            LET buf == SubSeq(stdinData, stdinPos + 1, stdinPos')
                w == VecCopyFromSlice(bytes, cursor, buf)
            IN /\ ~w.panicked
               /\ w.ret = Len(buf)
               /\ bytes' = bytes \o buf
               /\ cursor' = cursor + Len(buf)
               /\ pc' = pc]_vars

\* C35's case: two bytes have been written to a vector made with a
\* capacity, and the writer is still in use.
C35_Witness ==
    /\ pc = "buffered_copy_in"
    /\ TryGetSize # 0
    /\ Len(bytes) = 2
    /\ cursor = 2

\* C33: the RunOnce `set_len` runs its closure at most once.  When memfd()
\* reaches its second call of set_stdout_len after the pre-setting call has
\* run the closure, try_take gives None and is_runnable is false.
C33_RunOnceRunsOnce ==
    (pc = "memfd_set_len" /\ cfg.sizeOutput /\ TryGetSize # 0)
        => (~TryTake(setLen).some /\ ~IsRunnable(setLen))

(***************************************************************************)
(* Claims about the parser, checked under SpecParse.                       *)
(***************************************************************************)
\* parse_from has returned.
ParsedDone == parsed.kind # "Pending"

\* The spec an invocation s = <<option, command, t1, ..., tn>> stands for,
\* written from the grammar: -exec keeps every ti as a string, -exec{} turns
\* each "{}" into a placeholder slot.
StdinSpecOf(s) ==
    [mode |-> "Stdin", command |-> s[2],
     args |-> [i \in 1..(Len(s) - 2) |-> <<s[i + 2]>>]]
PositionalSpecOf(s) ==
    [mode |-> "Positional", command |-> s[2],
     args |-> [i \in 1..(Len(s) - 2) |-> IF s[i + 2] = "{}" THEN <<>> ELSE <<s[i + 2]>>]]
SpecOf(s) == IF s[1] = "-exec" THEN StdinSpecOf(s) ELSE PositionalSpecOf(s)

NoTerminatorFrom(s, from) == \A i \in from..Len(s) : s[i] # ";"

\* argv is <<-exec, c, a1, ..., an, ;>> with no ai equal to ";".
IsTerminatedStdinInvocation(a) ==
    /\ Len(a) >= 3
    /\ a[1] = "-exec"
    /\ a[Len(a)] = ";"
    /\ NoTerminatorFrom(SubSeq(a, 1, Len(a) - 1), 3)

\* C7: parsing <<-exec, c, a1, ..., an, ;>> (no ai equal to ";") succeeds
\* with exactly one spec, Stdin{command: c, args: <<a1, ..., an>>}: the
\* arguments verbatim and in order, the terminator consumed and not kept.
C7_StdinInvocation ==
    (ParsedDone /\ IsTerminatedStdinInvocation(argv)) =>
        /\ parsed = ParseOk
        /\ output = <<StdinSpecOf(SubSeq(argv, 1, Len(argv) - 1))>>
        /\ args = <<>>

\* C7's case: a terminated -exec invocation with two different arguments
\* has been parsed.
C7_Witness ==
    /\ ParsedDone
    /\ IsTerminatedStdinInvocation(argv)
    /\ Len(argv) = 5
    /\ argv[3] # argv[4]
    /\ Len(output) = 1

\* C8 as stated: parsing <<-exec{}, c, t1, ..., tn>>, for any tokens ti,
\* gives one Positional spec with n arguments, a placeholder slot exactly
\* where ti = "{}" and the literal ti elsewhere.
C8_PositionalAnyTokens ==
    (ParsedDone /\ Len(argv) >= 2 /\ argv[1] = "-exec{}") =>
        /\ parsed = ParseOk
        /\ output = <<PositionalSpecOf(argv)>>

\* C8 (amended): parsing <<-exec{}, c, t1, ..., tn>> where no ti is the
\* terminator ";" gives one Positional spec with n arguments, a placeholder
\* slot exactly where ti = "{}" and the literal ti elsewhere, in order.
C8_PositionalInvocation ==
    (ParsedDone /\ Len(argv) >= 2 /\ argv[1] = "-exec{}" /\ NoTerminatorFrom(argv, 3)) =>
        /\ parsed = ParseOk
        /\ output = <<PositionalSpecOf(argv)>>
        /\ Len(output[1].args) = Len(argv) - 2

\* C8's case: an -exec{} invocation with two placeholders around a literal
\* has been parsed.
C8_Witness ==
    /\ ParsedDone
    /\ Len(argv) = 5
    /\ argv[1] = "-exec{}"
    /\ argv[3] = "{}" /\ argv[4] = "a" /\ argv[5] = "{}"
    /\ Len(output) = 1
    /\ output[1].args = <<None, Some("a"), None>>

\* The place of the first ";" of s at or after position from (Len(s) + 1 if
\* there is none).
RECURSIVE TerminatorAt(_, _)
TerminatorAt(s, from) ==
    IF from > Len(s) THEN Len(s) + 1
    ELSE IF s[from] = ";" THEN from
    ELSE TerminatorAt(s, from + 1)

\* The invocations of a command line: each runs from its option over its
\* command to the token before the next ";" (or to the end).
RECURSIVE Invocations(_)
Invocations(a) ==
    IF a = <<>> THEN <<>>
    ELSE LET e == TerminatorAt(a, 3)
         IN <<SubSeq(a, 1, IF e > Len(a) THEN Len(a) ELSE e - 1)>>
            \o Invocations(SubSeq(a, e + 1, Len(a)))

WellFormedInvocation(s) ==
    /\ Len(s) >= 2
    /\ s[1] \in {"-exec", "-exec{}"}
    /\ NoTerminatorFrom(s, 3)

WellFormed(a) ==
    \A j \in 1..Len(Invocations(a)) : WellFormedInvocation(Invocations(a)[j])

\* C9: for a command line made of k well-formed invocations separated by
\* ";", parsing succeeds and Options holds exactly k specs, the j-th being
\* the spec of the j-th invocation.
C9_InvocationOrder ==
    (ParsedDone /\ WellFormed(argv)) =>
        /\ parsed = ParseOk
        /\ Len(output) = Len(Invocations(argv))
        /\ \A j \in 1..Len(output) : output[j] = SpecOf(Invocations(argv)[j])

\* C9's case: two invocations of different modes have been parsed.
C9_Witness ==
    /\ ParsedDone
    /\ WellFormed(argv)
    /\ Len(Invocations(argv)) = 2
    /\ Len(output) = 2
    /\ output[1].mode # output[2].mode

\* C10 as stated: whenever the last invocation of argv is not terminated
\* (the parser ran out of tokens inside it), parsing argv and parsing argv
\* followed by ";" give equal results.
C10_OptionalTerminatorAny ==
    (ParsedDone /\ lastExec \in {"exhausted", "nocommand"}) =>
        ParseResult(ParserState) = ParseFrom(Append(argv, ";"))

\* C10 (amended): whenever the last invocation of argv has a command and is
\* not terminated, parsing argv and parsing argv followed by ";" give equal
\* Options.
C10_OptionalTerminator ==
    (ParsedDone /\ lastExec = "exhausted") =>
        /\ parsed = ParseOk
        /\ ParseResult(ParserState) = ParseFrom(Append(argv, ";"))

\* C10's case: a command line whose last invocation has arguments and no
\* terminator has been parsed.
C10_Witness ==
    /\ ParsedDone
    /\ lastExec = "exhausted"
    /\ Len(output) >= 1
    /\ Len(output[Len(output)].args) >= 1

\* Options is returned by parse_from.
ParsedOk == ParsedDone /\ parsed.kind = "Ok"

\* C11: in -exec mode a token "{}" is no placeholder: the Stdin spec has it,
\* unchanged and at its position, as an ordinary string argument.
C11_StdinPlaceholderLiteral ==
    ParsedOk =>
        /\ Len(output) = Len(Invocations(argv))
        /\ \A j \in 1..Len(output) :
            LET s == Invocations(argv)[j]
            IN s[1] = "-exec" =>
                /\ output[j].mode = "Stdin"
                /\ Len(output[j].args) = Len(s) - 2
                /\ \A i \in 1..(Len(s) - 2) :
                    /\ output[j].args[i] # None
                    /\ s[i + 2] = "{}" => output[j].args[i] = Some("{}")

\* C11's case: a -exec invocation with "{}" between two other arguments has
\* been parsed.
C11_Witness ==
    /\ ParsedOk
    /\ Len(argv) = 5 /\ argv[1] = "-exec" /\ argv[4] = "{}"
    /\ Len(output) = 1
    /\ output[1].args = <<Some(argv[3]), Some("{}"), Some(argv[5])>>

\* The position in a, at or after p, of the first top-level token that is
\* not an option followed by a command; 0 when there is none.  An option at
\* p has its command at p + 1 and its arguments up to the next ";".
RECURSIVE OffendingAt(_, _)
OffendingAt(a, p) ==
    IF p > Len(a) THEN 0
    ELSE IF a[p] \notin ExecOptions \/ p = Len(a) THEN p
    ELSE OffendingAt(a, TerminatorAt(a, p + 2) + 1)

\* The last token of argv is an option at the top level, and every token
\* before it belongs to a complete invocation.
OptionWithoutCommand(a) ==
    /\ a # <<>>
    /\ OffendingAt(a, 1) = Len(a)
    /\ a[Len(a)] \in ExecOptions

\* C12 as stated: whenever the last token of argv is -exec or -exec{},
\* parsing fails with InvalidUsage naming that option.
C12_LastTokenAnywhere ==
    (ParsedDone /\ argv # <<>> /\ argv[Len(argv)] \in ExecOptions) =>
        /\ parsed.kind = "InvalidUsage"
        /\ parsed.argument = argv[Len(argv)]

\* C12 (amended): whenever the last token of argv is -exec or -exec{} at
\* the top level (not taken as the command or an argument of an open
\* invocation) and what precedes it is complete invocations, parsing fails
\* with InvalidUsage naming that option, and no Options is returned.
C12_MissingCommand ==
    (ParsedDone /\ OptionWithoutCommand(argv)) =>
        /\ parsed.kind = "InvalidUsage"
        /\ parsed.argument = argv[Len(argv)]
        /\ ParseResult(ParserState).exec = <<>>

\* C12's case: a bare -exec{} after a complete, terminated invocation.
C12_Witness ==
    /\ ParsedDone
    /\ OptionWithoutCommand(argv)
    /\ Len(argv) = 4 /\ argv[3] = ";" /\ argv[4] = "-exec{}"
    /\ Len(output) = 1
    /\ parsed.kind = "InvalidUsage"

\* C13: the first top-level token that is neither -exec nor -exec{} makes
\* parsing fail with UnknownOption carrying that token; the parser consumes
\* nothing after it and returns no Options.
C13_UnknownOption ==
    (ParsedDone /\ OffendingAt(argv, 1) # 0 /\ argv[OffendingAt(argv, 1)] \notin ExecOptions) =>
        /\ parsed.kind = "UnknownOption"
        /\ parsed.argument = argv[OffendingAt(argv, 1)]
        /\ args = SubSeq(argv, OffendingAt(argv, 1) + 1, Len(argv))
        /\ ParseResult(ParserState).exec = <<>>

\* C13's case: an unknown token after a complete invocation, with more
\* tokens behind it.
C13_Witness ==
    /\ ParsedDone
    /\ Len(argv) = 5 /\ OffendingAt(argv, 1) = 4
    /\ argv[4] \notin ExecOptions
    /\ parsed.kind = "UnknownOption"
    /\ Len(output) = 1 /\ Len(args) = 1

\* C14: when parsing fails, the index of the error is the 1-based position
\* in argv of the offending token.
C14_ErrorIndexIsPosition ==
    (ParsedDone /\ parsed.kind # "Ok") => parsed.index = OffendingAt(argv, 1)

\* C16: usage anomalies do not change the parse result.  For a command line
\* of well-formed invocations parsing succeeds with one spec per invocation,
\* where an argument equal to -exec / -exec{} is an ordinary argument, the
\* second token is the command even when it is ";", and a command "{}" of
\* -exec{} is the literal command.
C16_AnomaliesAreWarnings ==
    (ParsedDone /\ WellFormed(argv)) =>
        /\ parsed = ParseOk
        /\ Len(output) = Len(Invocations(argv))
        /\ \A j \in 1..Len(output) :
            LET s == Invocations(argv)[j]
            IN /\ output[j].command = s[2]
               /\ Len(output[j].args) = Len(s) - 2
               /\ \A i \in 1..(Len(s) - 2) :
                    s[i + 2] \in ExecOptions => output[j].args[i] = Some(s[i + 2])

\* C16's case: -exec with the terminator as its command and an option name
\* as its argument has been parsed to a single spec.
C16_Witness ==
    /\ ParsedDone
    /\ argv = <<"-exec", ";", "-exec{}">>
    /\ output = <<[mode |-> "Stdin", command |-> ";", args |-> <<Some("-exec{}")>>]>>

(***************************************************************************)
(* Claims about the dispatcher, checked under SpecExec (C17: under Spec).  *)
(***************************************************************************)
\* The children spawned for entry i, and whether entry i has one.
ChildrenOf(i) == {k \in 1..Len(children) : children[k].entry = i}
HasChild(i) == ChildrenOf(i) # {}

\* The first token of an invocation is -exec{} and none of its arguments is
\* the placeholder.
NoPlaceholderInvocation(s) ==
    /\ s[1] = "-exec{}"
    /\ \A i \in 3..Len(s) : s[i] # "{}"

\* C15: a -exec{} invocation without any "{}" parses to a Positional spec
\* of literals only, and it is dispatched like any other: its child gets the
\* command and exactly those literal arguments, and its entry has an outcome
\* once the dispatcher is through.
C15_NoPlaceholderDispatched ==
    \A j \in 1..Len(Invocations(argv)) :
        LET s == Invocations(argv)[j]
        IN NoPlaceholderInvocation(s) =>
            /\ parsed = ParseOk
            /\ output[j] = [mode |-> "Positional", command |-> s[2],
                            args |-> [i \in 1..(Len(s) - 2) |-> Some(s[i + 2])]]
            /\ \A k \in ChildrenOf(j) :
                /\ children[k].command = s[2]
                /\ children[k].args = SubSeq(s, 3, Len(s))
                /\ children[k].stdin = 0
            /\ dispatch = "done" => \E i \in 1..Len(outcomes) : outcomes[i].entry = j

\* C15's case: the child of <<-exec{}, c, a, a>> has run and ended.
C15_Witness ==
    /\ argv = <<"-exec{}", "c", "a", "a">>
    /\ dispatch = "done"
    /\ Len(children) = 1
    /\ children[1].args = <<"a", "a">>
    /\ outcomes[1].kind = "Code"

\* C17: a run of the program whose arguments parse to n >= 1 specs and
\* whose capture and replay succeed has driven the dispatcher over the n
\* specs before it exits.
C17_DispatchBeforeExit ==
    (pc = "exit" /\ exitCode = 0 /\ parsed.kind = "Ok" /\ Len(output) >= 1) =>
        /\ dispatch = "done"
        /\ Len(outcomes) = Len(output)

\* C18: per-entry independence.  The k-th item yielded belongs to the k-th
\* spec, whatever the items before it were; once the iterator is exhausted
\* there are exactly n items, error items included.
C18_PerEntryOutcomes ==
    /\ Len(outcomes) <= Len(output)
    /\ \A k \in 1..Len(outcomes) :
        /\ outcomes[k].entry = k
        /\ \A c \in ChildrenOf(k) : children[c].command = output[k].command
    /\ dispatch = "done" => (Len(outcomes) = Len(output) /\ entry = Len(output))

\* C18's case: three entries; the spawn of the first failed, the wait on the
\* second failed, the third ran, and all three items are there.
C18_Witness ==
    /\ dispatch = "done"
    /\ Len(outcomes) = 3
    /\ outcomes[1].kind = "SpawnError"
    /\ outcomes[2].kind = "WaitError"
    /\ outcomes[3].kind = "Code"

\* C19: dispatch is sequential.  Only the child of the entry in progress can
\* be un-waited, so at most one is; when the dispatcher starts on an entry
\* every child spawned before has been waited on.
C19_SequentialDispatch ==
    /\ \A k \in 1..Len(children) :
        children[k].waits = 0 =>
            (k = Len(children) /\ children[k].entry = entry /\ step = "wait")
    /\ Cardinality({k \in 1..Len(children) : children[k].waits = 0}) <= 1
    /\ step \in {"dup", "stdin", "spawn"} =>
        \A k \in 1..Len(children) : children[k].waits = 1

\* C19's case: the second child runs un-waited after the first was waited on.
C19_Witness ==
    /\ Len(children) = 2
    /\ children[1].waits = 1
    /\ children[2].waits = 0 /\ children[2].status = "running"

\* C20 as stated: every entry whose spawn succeeded and whose item has been
\* yielded was waited on once and has its exit code, or None, recorded.
C20_CodeAlwaysRecorded ==
    \A i \in 1..Len(outcomes) :
        HasChild(i) =>
            /\ \A k \in ChildrenOf(i) : children[k].waits = 1
            /\ outcomes[i].kind \in {"Code", "NoCode"}

\* C20 (amended): an entry whose spawn succeeded is waited on exactly once,
\* and its item is the exit code, None when the child ended by a signal, or
\* the wait error when the wait failed; an entry whose spawn failed has the
\* spawn error as its item and no child to wait on.  When the dispatcher is
\* through, every child spawned has been waited on.
C20_OutcomeRecording ==
    /\ \A k \in 1..Len(children) : children[k].waits <= 1
    /\ \A i \in 1..Len(outcomes) :
        /\ Cardinality(ChildrenOf(i)) <= 1
        /\ \A k \in ChildrenOf(i) :
            /\ children[k].waits = 1
            /\ outcomes[i].kind \in {"Code", "NoCode", "WaitError"}
            /\ outcomes[i].kind = "Code" =>
                (children[k].status = "exited" /\ outcomes[i].code = children[k].code)
            /\ outcomes[i].kind = "NoCode" => children[k].status = "signaled"
        /\ outcomes[i].kind = "SpawnError" <=> ~HasChild(i)
    /\ dispatch \in {"done", "panicked"} =>
        \A k \in 1..Len(children) : children[k].waits = 1

\* C20's case: one child ended by a signal, one exited with code 1, and the
\* spawn of a third entry failed.
C20_Witness ==
    /\ dispatch = "done"
    /\ Len(outcomes) = 3 /\ Len(children) = 2
    /\ outcomes[1].kind = "NoCode"
    /\ outcomes[2].kind = "SpawnError"
    /\ outcomes[3].kind = "Code" /\ outcomes[3].code = 1

\* The descriptors the parent had open when spawn_from_sync was called.
OpenBeforeDispatch == STDIO_FDS \cup {DataFd}

\* C22: no descriptor leak in dispatch.  Whenever the item of an entry has
\* been yielded (the dispatcher is between entries or through), the parent
\* has the descriptors open it had before dispatch and no other.
C22_NoDescriptorLeak ==
    (dispatch \in {"running", "done"} /\ step = "next") =>
        openFds = OpenBeforeDispatch

\* C23: a failed dup is the entry's error item: the dispatcher never
\* panics, and when it is through every entry has its item.
C23_DupFailureSurfaced ==
    /\ dispatch # "panicked"
    /\ dispatch = "done" => Len(outcomes) = Len(output)

\* C24: handle independence.  The parent's original descriptor is open
\* throughout and is never the one an entry or a child works with; the
\* descriptor an entry gets is one that was not open before; and no step,
\* a child's reading to the end and the closing of an entry's descriptors
\* included, changes the captured data or closes the original.
C24_HandleIndependence ==
    /\ [](/\ DataFd \in openFds
          /\ input # 0 => (input # DataFd /\ input \in openFds)
          /\ stdinFd # 0 => (stdinFd \notin {DataFd, input} /\ stdinFd \in openFds)
          /\ \A k \in 1..Len(children) :
                children[k].input # DataFd /\ children[k].stdin # DataFd)
    /\ [][/\ storage' = storage
           /\ DataFd \in openFds'
           /\ (input' # input /\ input' # 0) => input' \notin openFds]_vars

\* C24's case: the first child has read the captured data to its end and
\* its descriptors are closed; the second entry has its own duplicate.
C24_Witness ==
    /\ Len(children) = 1
    /\ children[1].got = storage
    /\ children[1].waits = 1
    /\ entry = 2
    /\ input # 0
    /\ DataFd \in openFds

\* C25: no shared seek-cursor interference.  No step of the dispatcher or
\* of a child changes the read position observed through the parent's
\* original descriptor.
C25_NoCursorInterference == [][offset' = offset]_vars

\* C26: every child of a Stdin entry was spawned with its standard input
\* at offset 0 of the captured data, and with the parent's standard output
\* and standard error.
C26_StdinChildGetsAll ==
    \A k \in 1..Len(children) :
        output[children[k].entry].mode = "Stdin" =>
            /\ children[k].stdin # 0
            /\ children[k].stdinAt = 0
            /\ children[k].stdout = "inherit"
            /\ children[k].stderr = "inherit"

\* C27: positional substitution.  The child of a Positional spec has as
\* many arguments as the spec, in its order; a literal is passed as it is,
\* every placeholder is the one path of the descriptor duplicated for this
\* entry, which is not the parent's original; the child's standard input
\* is not the captured data.
C27_PositionalSubstitution ==
    \A k \in 1..Len(children) :
        LET ch == children[k]
            sp == output[ch.entry]
        IN sp.mode = "Positional" =>
            /\ Len(ch.args) = Len(sp.args)
            /\ \A i \in 1..Len(sp.args) :
                IF sp.args[i] = None
                THEN ch.args[i] = "/proc/" \o ToString(ProcessId) \o "/fd/"
                                    \o ToString(ch.input)
                ELSE ch.args[i] = sp.args[i][1]
            /\ ch.input \notin OpenBeforeDispatch
            /\ ch.stdin = 0

\* C27's case: the child of <<-exec{}, c, {}, a, {}>> runs with the path of
\* descriptor 4 in both placeholder slots.
C27_Witness ==
    /\ argv = <<"-exec{}", "c", "{}", "a", "{}">>
    /\ Len(children) = 1
    /\ children[1].input = 4
    /\ children[1].args[1] = children[1].args[3]
    /\ children[1].args[2] = "a"
    /\ children[1].status = "running"

C28_HandleValueInvariant ==
    /\ \A i \in DOMAIN objects :
        objects[i].kind = "RawFile" => Get(objects[i].desc) >= 0
    /\ returned.op = "try_new" =>
        /\ (~returned.ok) <=> (returned.arg < 0)
        /\ (~returned.ok) => returned.err = "BadFDError"
        /\ returned.ok => returned.fd = returned.arg
    /\ returned.op = "take_ownership_of_raw" =>
        /\ (~returned.ok) <=> (returned.arg < 0)
        /\ (~returned.ok) => returned.err = returned.arg
        /\ returned.ok =>
            /\ returned.fd = returned.arg
            /\ Fileno(objects[Len(objects)]) = returned.arg

\* C28's case: with a RawFile alive, try_new has just refused -1.
C28_Witness ==
    /\ returned.op = "try_new"
    /\ returned.arg = -1
    /\ ~returned.ok
    /\ objects # <<>>

\* C29: duplicate.  A step in which try_clone succeeds adds one RawFile,
\* whose descriptor was not open before and differs from the original's,
\* and leaves the original where it was, open and owned; a step in which
\* it fails returns the DuplicateError of the original's descriptor with
\* kind Duplicate, and changes no owner, no descriptor and no close count.
C29_TryClone ==
    [][returned'.op = "try_clone" =>
        IF returned'.ok
        THEN /\ returned'.fd # returned'.arg
             /\ returned'.fd \notin fdTable
             /\ fdTable' = fdTable \cup {returned'.fd}
             /\ Len(objects') = Len(objects) + 1
             /\ SubSeq(objects', 1, Len(objects)) = objects
             /\ objects'[Len(objects')].kind = "RawFile"
             /\ Fileno(objects'[Len(objects')]) = returned'.fd
             /\ returned'.arg \in Owned
             /\ closeCalls' = closeCalls
        ELSE /\ returned'.err = [from |-> returned'.arg, to |-> "Duplicate"]
             /\ returned'.arg \in Owned
             /\ returned'.arg \in fdTable
             /\ objects' = objects
             /\ fdTable' = fdTable
             /\ closeCalls' = closeCalls]_vars

\* C29's case: try_clone has failed on the second of two live RawFiles.
C29_Witness ==
    /\ returned.op = "try_clone"
    /\ ~returned.ok
    /\ Len(objects) = 2
    /\ returned.arg = Fileno(objects[2])

\* C32: memory-file creation.  A step of open_mem in which memfd_create
\* failed returns the error tagged Create and makes no descriptor; one in
\* which the size conversion or fallocate failed returns the error tagged
\* Allocate, after the descriptor it had made was closed by one close call,
\* so that no descriptor and no owner is left of it; with len = 0 neither
\* the conversion nor fallocate is attempted; and a step that succeeded
\* leaves one new RawFile and has closed nothing.
C32_OpenMemSteps ==
    [][returned'.op = "open_mem" =>
        /\ returned'.failed = "memfd_create" =>
            /\ ~returned'.ok /\ returned'.err = "Create"
            /\ UNCHANGED <<objects, fdTable, opened, closeCalls>>
        /\ returned'.failed \in {"try_into", "fallocate"} =>
            /\ ~returned'.ok /\ returned'.err = "Allocate"
            /\ opened' = opened + 1
            /\ closeCalls' = closeCalls + 1
            /\ badCloses' = badCloses
            /\ UNCHANGED <<objects, fdTable>>
        /\ returned'.failed = "try_into" <=>
            (returned'.err = "Allocate" /\ returned'.arg.top)
        /\ (returned'.arg = [top |-> FALSE, low |-> 0]) =>
            returned'.failed \in {"none", "memfd_create"}
        /\ returned'.ok =>
            /\ returned'.failed = "none"
            /\ objects' = Append(objects, RawFile(NewUnchecked(returned'.fd)))
            /\ fdTable' = fdTable \cup {returned'.fd}
            /\ returned'.fd \notin fdTable
            /\ closeCalls' = closeCalls]_vars

\* C32's case: with a RawFile alive, fallocate has failed in open_mem and
\* the descriptor made for it is closed again.
C32_Witness ==
    /\ returned.op = "open_mem"
    /\ returned.failed = "fallocate"
    /\ returned.err = "Allocate"
    /\ objects # <<>>
    /\ closeCalls = 1
    /\ returned.fd \notin fdTable

(***************************************************************************)
(* Claims about ExecMode::into_process_info, checked under SpecArgs.       *)
(***************************************************************************)
\* The number of placeholders among the first i arguments.
PlaceholdersUpTo(a, i) == Cardinality({j \in 1..i : a[j] = None})

\* The arguments the iterator is to yield: every literal, and the k-th
\* placeholder as the k-th positional item while there is one.
ExpectedArgs(spec, positional) ==
    IF spec.mode = "Stdin"
    THEN [i \in 1..Len(spec.args) |-> spec.args[i][1]]
    ELSE LET a == spec.args
             kept == {i \in 1..Len(a) :
                        a[i] # None \/ PlaceholdersUpTo(a, i) <= Len(positional)}
             at(n) == CHOOSE i \in kept : Cardinality({j \in kept : j <= i}) = n
         IN [n \in 1..Cardinality(kept) |->
                IF a[at(n)] = None
                THEN positional[PlaceholdersUpTo(a, at(n))]
                ELSE a[at(n)][1]]

IsPrefix(s, t) == Len(s) <= Len(t) /\ s = SubSeq(t, 1, Len(s))

\* C34: the iterator of into_process_info yields, for Stdin, the arguments
\* unchanged whatever the positional iterator holds; for Positional, the
\* arguments in order with the k-th placeholder replaced by the k-th
\* positional item, placeholders past the end of the positional iterator
\* left out and every literal kept.  What has been yielded is always a
\* prefix of that list, and next() returns None only once all of it has
\* been yielded.
C34_ArgIterator ==
    given.op = "into_process_info" =>
        LET e == ExpectedArgs(given.spec, given.positional)
        IN /\ IsPrefix(yielded, e)
           /\ ExecModeArgIteratorNext(iter).item = None => yielded = e
           /\ iter.vec = <<>> => yielded = e

\* C34's case: the positional iterator ran out at the second placeholder,
\* which was left out, and the literal after it was still yielded.
C34_Witness ==
    /\ given.op = "into_process_info"
    /\ given.spec.mode = "Positional"
    /\ given.spec.args = <<None, None, Some("a")>>
    /\ given.positional = <<"x">>
    /\ yielded = <<"x", "a">>
    /\ iter.vec = <<>>

(***************************************************************************)
(* Claims about Vec<u8>::copy_from_slice, checked under SpecVec.           *)
(***************************************************************************)
\* C36: a call copy_from_slice(st, buf) with st + len(buf) <= len(self)
\* returns len(buf), puts buf at positions [st, st + len(buf)) and leaves the
\* length and every other byte of the vector as they were, also when
\* st + len(buf) < len(self).
C36_InPlaceWrite ==
    (given.op = "copy_from_slice" /\ given.st + Len(given.buf) <= Len(given.self)) =>
        /\ ~given.panicked
        /\ given.ret = Len(given.buf)
        /\ Len(heap) = Len(given.self)
        /\ \A i \in 1..Len(heap) :
            heap[i] = IF i > given.st /\ i <= given.st + Len(given.buf)
                      THEN given.buf[i - given.st]
                      ELSE given.self[i]

(***************************************************************************)
(* Claims about find_size_bytes, checked under SpecFind.                   *)
(***************************************************************************)
\* The part of the name from '-' on holds none of the tags of KMAP_TAGS.
NoTagAfterDash ==
    /\ Memchr("-", find.dir_bytes) # None
    /\ \A i \in 1..Len(KMAP_TAGS) :
        Memchr(KMAP_TAGS[i], SubSeq(find.dir_bytes, Memchr("-", find.dir_bytes)[1] + 1,
                                    Len(find.dir_bytes))) = None

\* C37: find_size_bytes returns for every directory name, and what it
\* returns for a name with none of the tags of KMAP_TAGS after its '-' is
\* None.
C37_LookupTerminates ==
    /\ <>(find.pc = "returned")
    /\ [](find.pc = "returned" /\ NoTagAfterDash => find.result = None)

(***************************************************************************)
(* Claims about NonNegativeI32, checked under SpecHandle.                  *)
(***************************************************************************)
\* C38: descriptor packing round trip.  NonNegativeI32::new(x) is Some with
\* get() = x for every x >= 0, 0 and i32::MAX included, and None for every
\* x < 0; try_from(x) succeeds exactly when new(x) is Some, with the same
\* value, and its debug assertion never fails.
C38_PackingRoundTrip ==
    /\ returned.op = "new" =>
        /\ returned.some <=> (returned.arg >= 0)
        /\ returned.some => returned.get = returned.arg
    /\ returned.op = "try_from" =>
        /\ ~returned.panicked
        /\ returned.ok <=> (NonNegativeNew(returned.arg) # None)
        /\ returned.ok <=> (returned.arg >= 0)
        /\ returned.ok =>
            /\ returned.value = NonNegativeNew(returned.arg)[1]
            /\ returned.get = returned.arg

\* C38's case: try_from has packed i32::MAX and get() gives it back.
C38_Witness ==
    /\ returned.op = "try_from"
    /\ returned.arg = I32Max
    /\ returned.ok
    /\ returned.get = I32Max

=============================================================================
